---- MODULE Spec2Model ----
(***************************************************************************)
(* A model of the AgentScope runtime (src/src/agentscope/runtime).         *)
(*                                                                         *)
(* Runtime.initialize and Runtime.shutdown are coroutines: the code        *)
(* between two awaits runs without interruption, and at an await another   *)
(* task may run.  A task's pc names the statement it executes next; the    *)
(* pcs of SyncPc are inside such an uninterrupted stretch.                 *)
(*                                                                         *)
(* SpecInvoke adds the /invoke gateway of build_app (runtime/_server.py),  *)
(* one step of event_iter per action; SpecChat is the /chat endpoint of    *)
(* the platform ChatServer (platform/server.py).                           *)
(***************************************************************************)
EXTENDS Integers, Sequences, FiniteSets, TLC

\* ------------------------------------------------------------------ bounds

\* Objects (configurations, models, toolkits, MCP clients, apps) the calls
\* of one behaviour may create in total.
MaxObjects == 10

\* The same under SpecConc, whose tasks overlap.
MaxObjectsConc == 8

\* ------------------------------------------------------------------- names

\* Slot names are strings, modelled as sequences of characters so that
\* name.startswith("_") is computed.
nMain == <<"m", "a", "i", "n">>
nAux == <<"a", "u", "x">>
nTmp == <<"_", "t", "m", "p">>
nKeys == <<"k", "e", "y", "s">>
nOther == <<"o", "t", "h", "e", "r">>
nModels == <<"_", "m", "o", "d", "e", "l", "s">>
nEmpty == <<>>

\* The names looked up in the registry.
Names == {nMain, nAux, nTmp, nKeys, nOther, nModels, nEmpty}

\* The tasks that may call the runtime; SeqTasks is the single caller of a
\* process that awaits each call before making the next.
Tasks == {1, 2}
SeqTasks == {1}

\* What an awaited external coroutine or constructor does.
Outcomes == {"ok", "Exception"}

Reverse(s) == [k \in 1..Len(s) |-> s[Len(s) + 1 - k]]

\* ------------------------------------------------------------ ModelRegistry

\* A registry is the dict _models, kept as its items in insertion order.
RegistryInit == <<>>

Keys(reg) == [k \in 1..Len(reg) |-> reg[k].name]

Contains(reg, name) == \E k \in 1..Len(reg) : reg[k].name = name

ModelOf(reg, name) == reg[CHOOSE k \in 1..Len(reg) : reg[k].name = name].model

\* Mutant: a slot that is already registered keeps its first model
\* (setdefault instead of assignment).
Register_keepsFirst(reg, name, model) ==
    IF Contains(reg, name) THEN reg
    ELSE Append(reg, [name |-> name, model |-> model])

\* self._models[name] = model
Register(reg, name, model) ==
    IF Contains(reg, name)
    THEN [k \in 1..Len(reg) |->
             IF reg[k].name = name THEN [name |-> name, model |-> model]
             ELSE reg[k]]
    ELSE Append(reg, [name |-> name, model |-> model])

StartsWithUnderscore(name) == Len(name) > 0 /\ name[1] = "_"

\* The result of a lookup: what is returned or raised, and for a raise
\* whether the message lists the registered slots.
Returned(v) ==
    [outcome |-> "return", error |-> "none", lists |-> FALSE, slots |-> <<>>,
     value |-> v]

Raised(e, lists, slots) ==
    [outcome |-> "raise", error |-> e, lists |-> lists, slots |-> slots,
     value |-> 0]

GetAttr(reg, name) ==
    IF StartsWithUnderscore(name)
    THEN Raised("AttributeError", FALSE, <<>>)
    ELSE IF ~Contains(reg, name)
    THEN Raised("AttributeError", TRUE, Keys(reg))
    ELSE Returned(ModelOf(reg, name))

GetItem(reg, name) ==
    IF ~Contains(reg, name)
    THEN Raised("KeyError", TRUE, Keys(reg))
    ELSE Returned(ModelOf(reg, name))

\* The attributes a registry has of its own: the instance's _models and
\* the class's methods.  Python calls __getattr__ only for other names.
OwnAttributes == {nModels, nKeys}

\* registry.<name>: the object's own attribute (value -1: not a model), or
\* else __getattr__.
AttributeAccess(reg, name) ==
    IF name \in OwnAttributes THEN Returned(-1) ELSE GetAttr(reg, name)

\* ----------------------------------------------------------------- inputs

SupportedProviders == {"openai", "anthropic", "dashscope", "gemini", "ollama"}

Slot(name, provider) == [slot |-> name, provider |-> provider]

\* The projects initialize is called on: what load_config finds at the
\* configuration path (cfg), the model slots and MCP servers of the
\* configuration in declared order, and what _load_app finds (app).
Projects ==
    << [cfg |-> "ok", models |-> <<Slot(nMain, "openai")>>,
        mcp |-> <<>>, app |-> "ok"],
       [cfg |-> "ok", models |-> <<Slot(nMain, "openai"), Slot(nAux, "ollama")>>,
        mcp |-> <<"fs", "web">>, app |-> "ok"],
       [cfg |-> "ok", models |-> <<Slot(nTmp, "anthropic"), Slot(nKeys, "gemini")>>,
        mcp |-> <<"fs">>, app |-> "ok"],
       [cfg |-> "ok", models |-> <<Slot(nAux, "openai"), Slot(nMain, "azure")>>,
        mcp |-> <<>>, app |-> "ok"],
       [cfg |-> "ok", models |-> <<Slot(nMain, "dashscope")>>,
        mcp |-> <<"fs">>, app |-> "missing"],
       [cfg |-> "ok", models |-> <<>>,
        mcp |-> <<>>, app |-> "invalid"],
       [cfg |-> "missing", models |-> <<>>, mcp |-> <<>>, app |-> "ok"],
       [cfg |-> "invalid", models |-> <<>>, mcp |-> <<>>, app |-> "ok"] >>

ProjectIds == 1..Len(Projects)

\* The projects the overlapping calls of SpecConc are made on.
ConcProjects == {1, 3}

\* A project whose configuration loads, whose providers are all supported
\* and whose app.py defines a conforming App.
ValidProject(p) ==
    /\ Projects[p].cfg = "ok"
    /\ \A k \in 1..Len(Projects[p].models) :
          Projects[p].models[k].provider \in SupportedProviders
    /\ Projects[p].app = "ok"

SlotsOf(p) == {Projects[p].models[k].slot : k \in 1..Len(Projects[p].models)}

\* The objects one initialize on project p may create: the configuration,
\* the models, the toolkit, the MCP clients and the app.
Cost(p) == 3 + Len(Projects[p].models) + Len(Projects[p].mcp)

\* ------------------------------------------------------------------ state

VARIABLES
    initialized,   \* Runtime._initialized
    config,        \* Runtime._config: NoConfig or [id, proj]
    app,           \* Runtime._app: 0 (None) or the App instance
    mcp_clients,   \* Runtime._mcp_clients: the list of connected clients
    models,        \* Runtime.models: the registry
    tools,         \* Runtime.tools: NoTools or [id, regs]
    session,       \* Runtime.session: 0 (None) or the config whose save_dir it uses
    pc,            \* each task's position
    frame,         \* each task's local variables
    result,        \* how each task's last call ended
    probe,         \* the result of the last property or registry access
    connectLog,    \* the clients connected since the last clear, in order
    regLog,        \* the <<slot, model>> pairs registered in self.models, in order
    sdLog,         \* what the last shutdown called, in order
    afterShutdown, \* no initialize has started since the last shutdown
    nextObj        \* the identity of the next object created

\* The gateway built by build_app and the request it is serving.
VARIABLES
    built,            \* build_app has returned the FastAPI app
    platform_client,  \* app.state.platform_client: 0 (None) or 1 (the client)
    request_count,    \* PlatformClient._request_count
    active_sessions,  \* PlatformClient._active_sessions
    request,          \* the body of the last POST /invoke
    http,             \* the status of its response, 0 before any request
    ctx,              \* the SessionContext built for it, NoCtx when rejected
    stream,           \* the position of its event_iter generator
    units,            \* the units its handler has produced, in order
    frames,           \* the frames event_iter has yielded, in order
    raised,           \* str(e) of the exception its handler raised, "" if none
    evlog             \* what the request has done so far, in order

\* The platform's ChatServer and the /chat requests it is serving.
VARIABLES
    session_backend,  \* ChatServer._session_backend: "None" or "backend",
                      \* "unset" before the server is constructed
    saved,            \* the session ids the backend holds a payload for
    agent,            \* ChatServer._agent: the session ids whose turns its
                      \* state holds
    records,          \* the agent state the backend holds under each
                      \* session id, as the session ids whose turns it holds
    chat              \* each /chat request: its status, stream and log

\* The PlatformClient and its heartbeat loop tasks.
VARIABLES
    platform_config,  \* PlatformClient.config: NoClient before the client is
                      \* constructed, else its endpoint and instance_id
    heartbeat_task,   \* PlatformClient._heartbeat_task: 0 (None) or the task
    loop,             \* each _heartbeat_loop task: its position and what its
                      \* last heartbeat and config poll came back with
    payload,          \* the metrics of the last heartbeat payload built
    stopping,         \* the position of the caller of stop()
    exited,           \* sys.exit(0) has been called: the process is ending
    sent,             \* how many heartbeat POSTs and config GETs were issued
    last_call,        \* the last call made on the client and how it ended
    stopped,          \* stop() has returned and start() has made no task since
    recorded          \* the session ids passed to record_request, in order

\* A session backend and the components of its caller.
VARIABLES
    backend_kind,  \* which backend create_session_backend built, "unset"
                   \* before it is called
    store,         \* what the backend holds under each key
    components,    \* the state of each component the caller holds
    backend_call,  \* the last call on the backend and how it ended
    engine,        \* RedisSessionBackend._redis, DatabaseSessionBackend._engine:
                   \* "None" or "created"
    reachable      \* the server behind the backend's url accepts connections

\* The database backend and the save calls in flight on it.
VARIABLES
    dialect,         \* engine.dialect.name, "unset" before the backend is made
    db_initialized,  \* DatabaseSessionBackend._initialized
    has_table,       \* the sessions table exists in the database
    table,           \* the committed rows of the sessions table
    tx,              \* each save call: its position, its payload, and what
                     \* its transaction has deleted and inserted
    saves            \* how many save calls have begun

\* The configuration file and what load_config made of it.
VARIABLES
    loaded  \* the last load_config call: the document read and how it ended

\* The served process: `agentscope run` and the lifespan of its server.
VARIABLES
    served  \* where _run_async and the lifespan are, and the arguments

fields == <<initialized, config, app, mcp_clients, models, tools, session>>

vars == <<initialized, config, app, mcp_clients, models, tools, session,
          pc, frame, result, probe, connectLog, regLog, sdLog, afterShutdown,
          nextObj>>

gateway == <<built, platform_client, request_count, active_sessions, request,
             http, ctx, stream, units, frames, raised, evlog>>

chatserver == <<session_backend, saved, agent, records, chat>>

platform == <<platform_config, heartbeat_task, loop, payload, stopping,
              exited, sent, last_call, stopped, recorded>>

sessions == <<backend_kind, store, components, backend_call, engine,
              reachable>>

database == <<dialect, db_initialized, has_table, table, tx, saves>>

\* What the gateway and the ChatServer leave alone besides the Runtime.
configfile == <<loaded>>

process == <<served>>

elsewhere == <<platform, sessions, database, configfile, process>>

\* What the calls of the Runtime leave alone.
serving == <<gateway, chatserver, elsewhere>>

\* The most chunks an agent produces for one /chat request.
MaxChunks == 2

\* The /chat requests in flight at once: one.
ChatRequests == {1}

\* A /chat request: the status of its response (0 before it is made), the
\* position of its _stream_response generator, its session id, the SSE
\* events yielded, the number of chunks the agent produced, the message of
\* the error caught, and what the request has done so far, in order.
NoChat == [http |-> 0, pc |-> "none", session_id |-> "", events |-> <<>>,
           chunks |-> 0, error |-> "", log |-> <<>>]

\* The session ids of the /chat requests: the default and a given one.
ChatSessionIds == {"default", "s1"}

\* ChatServer.__init__ has not run; no request has been made, and the
\* agent is in its just-constructed state.
ChatInit ==
    /\ session_backend = "unset"
    /\ saved = {}
    /\ agent = {}
    /\ records = [s \in ChatSessionIds |-> {}]
    /\ chat = [r \in ChatRequests |-> NoChat]

\* The most units a handler produces for one request.
MaxUnits == 2

\* The most requests the platform client records.
MaxRequests == 2

\* What payload.get(key) returns, by the Python type of the value, whether
\* Python treats it as false, and its text.  A missing key and a JSON null
\* both give None.
Value(type, falsy, text) == [type |-> type, falsy |-> falsy, text |-> text]

PyNone == Value("NoneType", TRUE, "None")
PyFalse == Value("bool", TRUE, "False")
PyTrue == Value("bool", FALSE, "True")
PyZero == Value("int", TRUE, "0")
PySeven == Value("int", FALSE, "7")
PyStr(text) == Value("str", text = "", text)
PyEmptyList == Value("list", TRUE, "[]")
PyList == Value("list", FALSE, "[1]")
PyEmptyDict == Value("dict", TRUE, "{}")
PyDict(text) == Value("dict", FALSE, text)

\* isinstance(v, str), isinstance(v, dict)
IsStr(v) == v.type = "str"
IsDict(v) == v.type = "dict"

\* a or b
Or(a, b) == IF a.falsy THEN b ELSE a

\* The values a request carries under "session_id", "message" and
\* "metadata".  Msg.from_dict accepts the message dict "msg" and raises for
\* the dict "nokeys" and for the empty dict.
SessionIds == {PyNone, PySeven, PyStr(""), PyStr("s1")}
Messages == {PyNone, PyStr("hi"), PyEmptyDict, PyDict("nokeys"), PyDict("msg")}
Metadatas == {PyNone, PyFalse, PyTrue, PyZero, PySeven, PyStr(""), PyStr("x"),
              PyEmptyList, PyList, PyEmptyDict, PyDict("meta")}

\* The bodies of POST /invoke: bytes that are not JSON, a JSON array, or a
\* JSON object: every session_id with every metadata around a message
\* that builds, and every message with the session id "s1".
Body(json, session_id, message, metadata) ==
    [json |-> json, session_id |-> session_id, message |-> message,
     metadata |-> metadata]

Bodies ==
    {Body("invalid", PyNone, PyNone, PyNone), Body("array", PyNone, PyNone, PyNone)}
    \cup {Body("object", s, PyDict("msg"), d) : s \in SessionIds, d \in Metadatas}
    \cup {Body("object", PyStr("s1"), m, d) : m \in Messages, d \in {PyNone, PyList}}

NoRequest == Body("none", PyNone, PyNone, PyNone)
NoCtx == [session_id |-> "", metadata |-> PyNone]

\* A handler's unit serializes ("plain"), makes json.dumps raise
\* ("undumpable": its content holds an object json cannot serialize), or
\* makes encode("utf-8") raise ("unencodable": its text holds a lone
\* surrogate, which json.dumps with ensure_ascii=False passes through).
UnitKinds == {"plain", "undumpable", "unencodable"}

\* The texts str(e) gives for the exceptions a handler raises: the second
\* holds a lone surrogate.
ErrorTexts == {"boom", "boom-surrogate"}

NoConfig == [id |-> 0, proj |-> 0]
NoTools == [id |-> 0, regs |-> <<>>]
NoProbe == [kind |-> "none", name |-> <<>>, res |-> Returned(0)]
NoFrame == [proj |-> 0, it |-> 0, rit |-> 0, cur |-> 0, tk |-> 0,
            clean |-> FALSE, base |-> 0]
NoResult == [op |-> "none", outcome |-> "none", error |-> "none",
             step |-> "none", proj |-> 0, base |-> 0, clean |-> FALSE, n |-> 0]

\* The pcs inside a stretch of code with no await.
SyncPc == {"models", "session", "load_app", "close_next"}

InitPc == {"models", "connect", "register", "session", "load_app", "startup"}

ShutdownPc == {"on_shutdown", "close_next", "close"}

\* The event loop runs one task at a time: t may run when no other task
\* is between two awaits.
CanRun(t) == \A u \in Tasks \ {t} : pc[u] \notin SyncPc

\* No gateway has been built and no request made.
GatewayInit ==
    /\ built = FALSE
    /\ platform_client = 0
    /\ request_count = 0
    /\ active_sessions = {}
    /\ request = NoRequest
    /\ http = 0
    /\ ctx = NoCtx
    /\ stream = "none"
    /\ units = <<>>
    /\ frames = <<>>
    /\ raised = ""
    /\ evlog = <<>>

\* The heartbeat loop tasks one client can create.
Loops == {1, 2}

\* The most iterations one heartbeat loop begins.
MaxRounds == 2

\* No PlatformClient has been constructed.
NoClient == [endpoint |-> "unset", instance_id |-> "unset"]

\* No response has been read by a loop.
NoResponse == [status |-> "none", body |-> "none", updated |-> "none",
               action |-> "none"]

\* A task that asyncio.create_task has not created.
NoLoop == [pc |-> "none", heartbeat |-> "none", poll |-> NoResponse,
           action |-> "none", must_cancel |-> FALSE, rounds |-> 0]

\* No client, no task, nothing sent.
PlatformInit ==
    /\ platform_config = NoClient
    /\ heartbeat_task = 0
    /\ loop = [i \in Loops |-> NoLoop]
    /\ payload = [total_requests |-> -1, active_sessions |-> -1]
    /\ stopping = 0
    /\ exited = FALSE
    /\ sent = [heartbeat |-> 0, poll |-> 0]
    /\ last_call = [op |-> "none", result |-> "none"]
    /\ stopped = FALSE
    /\ recorded = <<>>

\* What a session backend leaves alone.
offSessions == <<vars, gateway, chatserver, platform, database, configfile,
                 process>>

\* The session ids the callers use: "a", and "./a", a different string.
StoreIds == {"a", "./a"}

\* The names components are saved under, and the sets of them one call
\* passes.
ComponentNames == {"memory", "agent"}

ComponentSets == {{"memory"}, {"memory", "agent"}}

\* json.dumps(state, ensure_ascii=False) as a text: a tuple is written as
\* an array, a lone surrogate is written as it is.
Dumps == [x |-> "jx", t |-> "jl", l |-> "jl", u |-> "ju"]

\* json.loads(text)
Loads == [jx |-> "x", jl |-> "l", ju |-> "u"]

\* Where the backend keeps the record of session_id: the file that
\* os.path.join(save_dir, f"{session_id}.json") names ("./a.json" is the
\* file "a.json"), the Redis key prefix + session_id, the row whose primary
\* key is session_id.
GetKey(kind, session_id) ==
    IF kind = "file" /\ session_id = "./a" THEN "a" ELSE session_id

\* A record: whether the backend holds a payload under the key, the payload
\* (the JSON text of each component name written), and whether a delete
\* call removed what was there.
Stored(data) == [present |-> TRUE, data |-> data, deleted |-> FALSE]

NoRecord == [present |-> FALSE, data |-> <<>>, deleted |-> FALSE]

\* A call, its arguments and how it ended; turn tells it from the call
\* before it.
BackendCall(op, session_id, names, states, allow_not_exist, outcome) ==
    [op |-> op, session_id |-> session_id, names |-> names,
     states |-> states, allow_not_exist |-> allow_not_exist,
     outcome |-> outcome, turn |-> 1 - backend_call.turn]

\* No backend has been created; the caller's components are new.
SessionsInit ==
    /\ backend_kind = "unset"
    /\ store = [k \in StoreIds |-> NoRecord]
    /\ components = [n \in ComponentNames |-> "x"]
    /\ backend_call = [op |-> "none", session_id |-> "", names |-> {},
                       states |-> <<>>, allow_not_exist |-> TRUE,
                       outcome |-> "none", turn |-> 0]
    /\ engine = "None"
    /\ reachable = TRUE

\* What the database backend leaves alone.
offDatabase == <<vars, gateway, chatserver, platform, sessions, configfile,
                 process>>

\* The save calls in flight at once.
Savers == {1, 2}

\* The most save calls made.
MaxSaves == 3

\* The payloads the saves write.
Payloads == {"p1", "p2"}

\* A row of the sessions table; session_id is its primary key.
Row(session_id, state_data) ==
    [session_id |-> session_id, state_data |-> state_data]

\* A save call that has not begun.
NoTx == [pc |-> "idle", data |-> "", deleted |-> {}, inserted |-> {},
         error |-> "none", saw_table |-> FALSE]

\* DatabaseSessionBackend.__init__ has not run.
DatabaseInit ==
    /\ dialect = "unset"
    /\ db_initialized = FALSE
    /\ has_table = FALSE
    /\ table = {}
    /\ tx = [t \in Savers |-> NoTx]
    /\ saves = 0

\* load_config has not been called.
NotLoaded == [document |-> <<>>, outcome |-> "none", error |-> "none",
              names |-> <<>>, config |-> <<>>]

\* Runtime.__init__, and no gateway yet
\* `agentscope run` has not been started.
NotServed == [at |-> "none", project |-> 0, no_platform |-> FALSE]

Init ==
    /\ initialized = FALSE
    /\ config = NoConfig
    /\ app = 0
    /\ mcp_clients = <<>>
    /\ models = RegistryInit
    /\ tools = NoTools
    /\ session = 0
    /\ pc = [t \in Tasks |-> "idle"]
    /\ frame = [t \in Tasks |-> NoFrame]
    /\ result = [t \in Tasks |-> NoResult]
    /\ probe = NoProbe
    /\ connectLog = <<>>
    /\ regLog = <<>>
    /\ sdLog = <<>>
    /\ afterShutdown = FALSE
    /\ nextObj = 1
    /\ GatewayInit
    /\ ChatInit
    /\ PlatformInit
    /\ SessionsInit
    /\ DatabaseInit
    /\ loaded = NotLoaded
    /\ served = NotServed

\* The call of task t ends: op returns (outcome "ok" or "noop") or raises.
Done(t, op, outcome, error, step) ==
    [op |-> op, outcome |-> outcome, error |-> error, step |-> step,
     proj |-> frame[t].proj, base |-> frame[t].base, clean |-> frame[t].clean,
     n |-> 1 - result[t].n]

\* initialize raises at step: the exception leaves the coroutine.
Fail(t, error, step) ==
    /\ pc' = [pc EXCEPT ![t] = "idle"]
    /\ frame' = [frame EXCEPT ![t] = NoFrame]
    /\ result' = [result EXCEPT ![t] = Done(t, "initialize", "raise", error, step)]

\* --------------------------------------------------------- Runtime.initialize

\* Mutant: the check is made after step 1 instead of first, so the rejected
\* call has already replaced self._config.
InitializeRejected_afterLoad(t, p) ==
    /\ pc[t] = "idle"
    /\ CanRun(t)
    /\ initialized
    /\ config' = IF Projects[p].cfg = "ok" THEN [id |-> nextObj, proj |-> p]
                 ELSE config
    /\ nextObj' = IF Projects[p].cfg = "ok" THEN nextObj + 1 ELSE nextObj
    /\ result' = [result EXCEPT ![t] =
           [NoResult EXCEPT !.op = "initialize", !.outcome = "raise",
                            !.error = "RuntimeError: already initialized",
                            !.step = "check", !.proj = p,
                            !.n = 1 - result[t].n]]
    /\ probe' = NoProbe
    /\ UNCHANGED <<initialized, app, mcp_clients, models, tools, session, pc,
                   frame, connectLog, regLog, sdLog, afterShutdown>>
    /\ UNCHANGED serving

\* if self._initialized: raise RuntimeError("Runtime is already initialized")
InitializeRejected(t, p) ==
    /\ pc[t] = "idle"
    /\ CanRun(t)
    /\ initialized
    /\ result' = [result EXCEPT ![t] =
           [NoResult EXCEPT !.op = "initialize", !.outcome = "raise",
                            !.error = "RuntimeError: already initialized",
                            !.step = "check", !.proj = p,
                            !.n = 1 - result[t].n]]
    /\ probe' = NoProbe
    /\ UNCHANGED <<fields, pc, frame, connectLog, regLog, sdLog, afterShutdown, nextObj>>
    /\ UNCHANGED serving

\* The check passes; step 1: self._config = load_config(full_config_path).
\* load_config raises before the assignment when the file is missing
\* (FileNotFoundError) or invalid (ValueError).  The call is made only
\* while the objects it may create stay within max.
InitializeLoadConfig(t, p, max) ==
    /\ pc[t] = "idle"
    /\ CanRun(t)
    /\ ~initialized
    /\ nextObj - 1 + Cost(p) <= max
    /\ afterShutdown' = FALSE
    /\ probe' = NoProbe
    /\ IF Projects[p].cfg = "ok"
       THEN /\ config' = [id |-> nextObj, proj |-> p]
            /\ nextObj' = nextObj + 1
            /\ pc' = [pc EXCEPT ![t] = "models"]
            /\ frame' = [frame EXCEPT ![t] =
                   [NoFrame EXCEPT !.proj = p, !.it = 1,
                                   !.clean = afterShutdown, !.base = nextObj]]
            /\ UNCHANGED result
       ELSE /\ result' = [result EXCEPT ![t] =
                   [NoResult EXCEPT
                       !.op = "initialize", !.outcome = "raise",
                       !.error = IF Projects[p].cfg = "missing"
                                 THEN "FileNotFoundError" ELSE "ValueError",
                       !.step = "load_config", !.proj = p,
                       !.base = nextObj, !.clean = afterShutdown,
                       !.n = 1 - result[t].n]]
            /\ UNCHANGED <<config, nextObj, pc, frame>>
    /\ UNCHANGED <<initialized, app, mcp_clients, models, tools, session,
                   connectLog, regLog, sdLog>>
    /\ UNCHANGED serving

\* Step 2, one iteration of the loop over self._config.models.items():
\* _create_model raises ValueError for an unsupported provider, else the
\* model is registered under its slot.
InitModel(t) ==
    /\ pc[t] = "models"
    /\ CanRun(t)
    /\ frame[t].it <= Len(Projects[config.proj].models)
    /\ probe' = NoProbe
    /\ LET m == Projects[config.proj].models[frame[t].it] IN
       IF m.provider \in SupportedProviders
       THEN /\ models' = Register(models, m.slot, nextObj)
            /\ regLog' = Append(regLog, <<m.slot, nextObj>>)
            /\ nextObj' = nextObj + 1
            /\ frame' = [frame EXCEPT ![t].it = @ + 1]
            /\ UNCHANGED <<pc, result>>
       ELSE /\ Fail(t, "ValueError", "create_model")
            /\ UNCHANGED <<models, regLog, nextObj>>
    /\ UNCHANGED <<initialized, config, app, mcp_clients, tools, session,
                   connectLog, sdLog, afterShutdown>>
    /\ UNCHANGED serving

\* Mutant: the session store is made together with the toolkit, before the
\* MCP clients are connected.
InitToolkit_sessionFirst(t) ==
    /\ pc[t] = "models"
    /\ CanRun(t)
    /\ frame[t].it > Len(Projects[config.proj].models)
    /\ probe' = NoProbe
    /\ tools' = [id |-> nextObj, regs |-> <<>>]
    /\ session' = config.id
    /\ nextObj' = nextObj + 1
    /\ frame' = [frame EXCEPT ![t].it = 1, ![t].proj = config.proj]
    /\ pc' = [pc EXCEPT ![t] =
           IF Len(Projects[config.proj].mcp) = 0 THEN "session" ELSE "connect"]
    /\ UNCHANGED <<initialized, config, app, mcp_clients, models,
                   result, connectLog, regLog, sdLog, afterShutdown>>
    /\ UNCHANGED serving

\* Step 3 begins: self.tools = Toolkit(); the loop over
\* self._config.mcp_servers.items() starts and awaits the first connect.
InitToolkit(t) ==
    /\ pc[t] = "models"
    /\ CanRun(t)
    /\ frame[t].it > Len(Projects[config.proj].models)
    /\ probe' = NoProbe
    /\ tools' = [id |-> nextObj, regs |-> <<>>]
    /\ nextObj' = nextObj + 1
    /\ frame' = [frame EXCEPT ![t].it = 1, ![t].proj = config.proj]
    /\ pc' = [pc EXCEPT ![t] =
           IF Len(Projects[config.proj].mcp) = 0 THEN "session" ELSE "connect"]
    /\ UNCHANGED <<initialized, config, app, mcp_clients, models, session,
                   result, connectLog, regLog, sdLog, afterShutdown>>
    /\ UNCHANGED serving

\* client = await _create_mcp_client(name, mcp_config) returns or raises;
\* the client is appended to self._mcp_clients and
\* self.tools.register_mcp_client(...) is called and awaited.
InitConnect(t) ==
    /\ pc[t] = "connect"
    /\ CanRun(t)
    /\ probe' = NoProbe
    /\ \E o \in Outcomes :
         IF o = "ok"
         THEN /\ mcp_clients' = Append(mcp_clients, nextObj)
              /\ connectLog' = Append(connectLog, nextObj)
              /\ nextObj' = nextObj + 1
              /\ IF tools = NoTools
                 THEN Fail(t, "AttributeError", "register_mcp_client")
                 ELSE /\ pc' = [pc EXCEPT ![t] = "register"]
                      /\ frame' = [frame EXCEPT ![t].cur = nextObj,
                                                ![t].tk = tools.id]
                      /\ UNCHANGED result
         ELSE /\ Fail(t, "Exception", "connect")
              /\ UNCHANGED <<mcp_clients, connectLog, nextObj>>
    /\ UNCHANGED <<initialized, config, app, models, tools, session, regLog,
                   sdLog, afterShutdown>>
    /\ UNCHANGED serving

\* await self.tools.register_mcp_client(...) returns or raises; the loop
\* goes on to the next server, or to step 4.
InitRegister(t) ==
    /\ pc[t] = "register"
    /\ CanRun(t)
    /\ probe' = NoProbe
    /\ \E o \in Outcomes :
         IF o = "ok"
         THEN /\ tools' = IF tools.id = frame[t].tk
                          THEN [tools EXCEPT !.regs = Append(@, frame[t].cur)]
                          ELSE tools
              /\ frame' = [frame EXCEPT ![t].it = @ + 1, ![t].cur = 0,
                                        ![t].tk = 0]
              /\ pc' = [pc EXCEPT ![t] =
                     IF frame[t].it + 1 > Len(Projects[frame[t].proj].mcp)
                     THEN "session" ELSE "connect"]
              /\ UNCHANGED result
         ELSE /\ Fail(t, "Exception", "register_mcp_client")
              /\ UNCHANGED tools
    /\ UNCHANGED <<initialized, config, app, mcp_clients, models, session,
                   connectLog, regLog, sdLog, afterShutdown, nextObj>>
    /\ UNCHANGED serving

\* Step 4: self.session = JSONSession(save_dir=self._config.session.save_dir);
\* reading save_dir raises AttributeError when self._config is None.
InitSession(t) ==
    /\ pc[t] = "session"
    /\ CanRun(t)
    /\ probe' = NoProbe
    /\ IF config = NoConfig
       THEN /\ Fail(t, "AttributeError", "session")
            /\ UNCHANGED session
       ELSE /\ session' = config.id
            /\ pc' = [pc EXCEPT ![t] = "load_app"]
            /\ UNCHANGED <<frame, result>>
    /\ UNCHANGED <<initialized, config, app, mcp_clients, models, tools,
                   connectLog, regLog, sdLog, afterShutdown, nextObj>>
    /\ UNCHANGED serving

\* Mutant: self._initialized = True is set before on_startup is awaited.
InitLoadApp_setsFlag(t) ==
    /\ pc[t] = "load_app"
    /\ CanRun(t)
    /\ probe' = NoProbe
    /\ IF Projects[frame[t].proj].app = "ok"
       THEN /\ app' = nextObj
            /\ initialized' = TRUE
            /\ nextObj' = nextObj + 1
            /\ pc' = [pc EXCEPT ![t] = "startup"]
            /\ UNCHANGED <<frame, result>>
       ELSE /\ Fail(t, IF Projects[frame[t].proj].app = "missing"
                       THEN "FileNotFoundError" ELSE "ValueError", "load_app")
            /\ UNCHANGED <<app, initialized, nextObj>>
    /\ UNCHANGED <<config, mcp_clients, models, tools, session,
                   connectLog, regLog, sdLog, afterShutdown>>
    /\ UNCHANGED serving

\* Step 5: self._app = self._load_app(project_path); step 6 begins:
\* self._app.on_startup() is called and awaited.
InitLoadApp(t) ==
    /\ pc[t] = "load_app"
    /\ CanRun(t)
    /\ probe' = NoProbe
    /\ IF Projects[frame[t].proj].app = "ok"
       THEN /\ app' = nextObj
            /\ nextObj' = nextObj + 1
            /\ pc' = [pc EXCEPT ![t] = "startup"]
            /\ UNCHANGED <<frame, result>>
       ELSE /\ Fail(t, IF Projects[frame[t].proj].app = "missing"
                       THEN "FileNotFoundError" ELSE "ValueError", "load_app")
            /\ UNCHANGED <<app, nextObj>>
    /\ UNCHANGED <<initialized, config, mcp_clients, models, tools, session,
                   connectLog, regLog, sdLog, afterShutdown>>
    /\ UNCHANGED serving

\* await self._app.on_startup() returns or raises; on return
\* self._initialized = True and initialize returns.
InitStartup(t) ==
    /\ pc[t] = "startup"
    /\ CanRun(t)
    /\ probe' = NoProbe
    /\ \E o \in Outcomes :
         IF o = "ok"
         THEN /\ initialized' = TRUE
              /\ pc' = [pc EXCEPT ![t] = "idle"]
              /\ frame' = [frame EXCEPT ![t] = NoFrame]
              /\ result' = [result EXCEPT ![t] =
                     Done(t, "initialize", "ok", "none", "none")]
         ELSE /\ Fail(t, "Exception", "on_startup")
              /\ UNCHANGED initialized
    /\ UNCHANGED <<config, app, mcp_clients, models, tools, session,
                   connectLog, regLog, sdLog, afterShutdown, nextObj>>
    /\ UNCHANGED serving

\* ----------------------------------------------------------- Runtime.shutdown

\* Mutant: the try blocks are missing, so nothing is caught.
CaughtByExcept_nothing(e) == FALSE

\* except Exception: the handler of the try blocks of shutdown catches e.
CaughtByExcept(e) == e = "Exception"

\* for client in reversed(self._mcp_clients): the iterator holds an index
\* into the list, starts at the last item and counts down; it ends when
\* the index is outside the list.
ReversedStart(list) == Len(list)

ReversedHasNext(list, k) == 1 <= k /\ k <= Len(list)

\* Mutant: the loop runs over self._mcp_clients, not over reversed(...).
ReversedItem_forward(list, k) == list[Len(list) + 1 - k]

ReversedItem(list, k) == list[k]

\* Mutant: the early return is missing, so shutdown clears the fields of
\* a runtime that is not initialized.
ShutdownNoop_clears(t) ==
    /\ pc[t] = "idle"
    /\ CanRun(t)
    /\ ~initialized
    /\ mcp_clients' = <<>>
    /\ app' = 0
    /\ config' = NoConfig
    /\ models' = RegistryInit
    /\ tools' = NoTools
    /\ session' = 0
    /\ result' = [result EXCEPT ![t] =
           [NoResult EXCEPT !.op = "shutdown", !.outcome = "ok",
                            !.n = 1 - result[t].n]]
    /\ probe' = NoProbe
    /\ UNCHANGED <<initialized, pc, frame, connectLog, regLog, sdLog, afterShutdown,
                   nextObj>>
    /\ UNCHANGED serving

\* if not self._initialized: return
ShutdownNoop(t) ==
    /\ pc[t] = "idle"
    /\ CanRun(t)
    /\ ~initialized
    /\ result' = [result EXCEPT ![t] =
           [NoResult EXCEPT !.op = "shutdown", !.outcome = "noop",
                            !.n = 1 - result[t].n]]
    /\ probe' = NoProbe
    /\ UNCHANGED <<fields, pc, frame, connectLog, regLog, sdLog, afterShutdown, nextObj>>
    /\ UNCHANGED serving

\* The runtime is initialized: self._app.on_shutdown() is called and
\* awaited (step 1), or with no app the loop of step 2 starts.
ShutdownBegin(t) ==
    /\ pc[t] = "idle"
    /\ CanRun(t)
    /\ initialized
    /\ probe' = NoProbe
    /\ sdLog' = <<>>
    /\ IF app # 0
       THEN /\ pc' = [pc EXCEPT ![t] = "on_shutdown"]
            /\ frame' = [frame EXCEPT ![t] = NoFrame]
       ELSE /\ pc' = [pc EXCEPT ![t] = "close_next"]
            /\ frame' = [frame EXCEPT ![t] =
                   [NoFrame EXCEPT !.rit = ReversedStart(mcp_clients)]]
    /\ UNCHANGED <<fields, result, connectLog, regLog, afterShutdown, nextObj>>
    /\ UNCHANGED serving

\* await self._app.on_shutdown() returns or raises; an Exception is logged.
\* Then the loop over reversed(self._mcp_clients) starts.
ShutdownHook(t) ==
    /\ pc[t] = "on_shutdown"
    /\ CanRun(t)
    /\ probe' = NoProbe
    /\ \E o \in Outcomes :
         /\ sdLog' = Append(sdLog, [call |-> "on_shutdown", obj |-> 0, outcome |-> o])
         /\ IF o = "ok" \/ CaughtByExcept(o)
            THEN /\ pc' = [pc EXCEPT ![t] = "close_next"]
                 /\ frame' = [frame EXCEPT ![t].rit = ReversedStart(mcp_clients)]
                 /\ UNCHANGED result
            ELSE /\ pc' = [pc EXCEPT ![t] = "idle"]
                 /\ frame' = [frame EXCEPT ![t] = NoFrame]
                 /\ result' = [result EXCEPT ![t] =
                        Done(t, "shutdown", "raise", o, "on_shutdown")]
    /\ UNCHANGED <<fields, connectLog, regLog, afterShutdown, nextObj>>
    /\ UNCHANGED serving

\* The loop takes the next client and calls and awaits client.close().
ShutdownNext(t) ==
    /\ pc[t] = "close_next"
    /\ CanRun(t)
    /\ ReversedHasNext(mcp_clients, frame[t].rit)
    /\ probe' = NoProbe
    /\ frame' = [frame EXCEPT ![t].cur = ReversedItem(mcp_clients, frame[t].rit),
                              ![t].rit = @ - 1]
    /\ pc' = [pc EXCEPT ![t] = "close"]
    /\ UNCHANGED <<fields, result, connectLog, regLog, sdLog, afterShutdown, nextObj>>
    /\ UNCHANGED serving

\* await client.close() returns or raises; an Exception is logged.
ShutdownClose(t) ==
    /\ pc[t] = "close"
    /\ CanRun(t)
    /\ probe' = NoProbe
    /\ \E o \in Outcomes :
         /\ sdLog' = Append(sdLog, [call |-> "close", obj |-> frame[t].cur,
                                    outcome |-> o])
         /\ IF o = "ok" \/ CaughtByExcept(o)
            THEN /\ pc' = [pc EXCEPT ![t] = "close_next"]
                 /\ frame' = [frame EXCEPT ![t].cur = 0]
                 /\ UNCHANGED result
            ELSE /\ pc' = [pc EXCEPT ![t] = "idle"]
                 /\ frame' = [frame EXCEPT ![t] = NoFrame]
                 /\ result' = [result EXCEPT ![t] =
                        Done(t, "shutdown", "raise", o, "close")]
    /\ UNCHANGED <<fields, connectLog, regLog, afterShutdown, nextObj>>
    /\ UNCHANGED serving

\* Mutant: self.models = ModelRegistry() is missing from the reset.
ShutdownClear_keepsModels(t) ==
    /\ pc[t] = "close_next"
    /\ CanRun(t)
    /\ ~ReversedHasNext(mcp_clients, frame[t].rit)
    /\ probe' = NoProbe
    /\ mcp_clients' = <<>>
    /\ app' = 0
    /\ config' = NoConfig
    /\ initialized' = FALSE
    /\ tools' = NoTools
    /\ session' = 0
    /\ connectLog' = <<>>
    /\ afterShutdown' = TRUE
    /\ pc' = [pc EXCEPT ![t] = "idle"]
    /\ frame' = [frame EXCEPT ![t] = NoFrame]
    /\ result' = [result EXCEPT ![t] = Done(t, "shutdown", "ok", "none", "none")]
    /\ UNCHANGED <<models, regLog, sdLog, nextObj>>
    /\ UNCHANGED serving

\* The loop has ended: the list is cleared, the fields are reset and
\* shutdown returns.
ShutdownClear(t) ==
    /\ pc[t] = "close_next"
    /\ CanRun(t)
    /\ ~ReversedHasNext(mcp_clients, frame[t].rit)
    /\ probe' = NoProbe
    /\ mcp_clients' = <<>>
    /\ app' = 0
    /\ config' = NoConfig
    /\ initialized' = FALSE
    /\ models' = RegistryInit
    /\ tools' = NoTools
    /\ session' = 0
    /\ connectLog' = <<>>
    /\ regLog' = <<>>
    /\ afterShutdown' = TRUE
    /\ pc' = [pc EXCEPT ![t] = "idle"]
    /\ frame' = [frame EXCEPT ![t] = NoFrame]
    /\ result' = [result EXCEPT ![t] = Done(t, "shutdown", "ok", "none", "none")]
    /\ UNCHANGED <<sdLog, nextObj>>
    /\ UNCHANGED serving

\* ------------------------------------------------- properties and lookups

\* Code running between the steps of the calls (the caller, a request
\* handler, the on_startup hook) reads the runtime.
CanProbe == \A u \in Tasks : pc[u] \notin SyncPc

\* Runtime.app
AppProperty ==
    IF app = 0 THEN Raised("RuntimeError: not initialized", FALSE, <<>>)
    ELSE Returned(app)

\* Runtime.config
ConfigProperty ==
    IF config = NoConfig THEN Raised("RuntimeError: not initialized", FALSE, <<>>)
    ELSE Returned(config.id)

ProbeApp ==
    /\ CanProbe
    /\ probe' = [kind |-> "app", name |-> <<>>, res |-> AppProperty]
    /\ UNCHANGED <<fields, pc, frame, result, connectLog, regLog, sdLog, afterShutdown,
                   nextObj>>
    /\ UNCHANGED serving

ProbeConfig ==
    /\ CanProbe
    /\ probe' = [kind |-> "config", name |-> <<>>, res |-> ConfigProperty]
    /\ UNCHANGED <<fields, pc, frame, result, connectLog, regLog, sdLog, afterShutdown,
                   nextObj>>
    /\ UNCHANGED serving

\* runtime.models.<name>
ProbeAttr(name) ==
    /\ CanProbe
    /\ probe' = [kind |-> "attr", name |-> name, res |-> AttributeAccess(models, name)]
    /\ UNCHANGED <<fields, pc, frame, result, connectLog, regLog, sdLog, afterShutdown,
                   nextObj>>
    /\ UNCHANGED serving

\* runtime.models[name]
ProbeItem(name) ==
    /\ CanProbe
    /\ probe' = [kind |-> "item", name |-> name, res |-> GetItem(models, name)]
    /\ UNCHANGED <<fields, pc, frame, result, connectLog, regLog, sdLog, afterShutdown,
                   nextObj>>
    /\ UNCHANGED serving

\* ---------------------------------------------------------- specifications

Step(t, ps, max) ==
    \/ \E p \in ps : InitializeRejected(t, p)
    \/ \E p \in ps : InitializeLoadConfig(t, p, max)
    \/ InitModel(t)
    \/ InitToolkit(t)
    \/ InitConnect(t)
    \/ InitRegister(t)
    \/ InitSession(t)
    \/ InitLoadApp(t)
    \/ InitStartup(t)
    \/ ShutdownNoop(t)
    \/ ShutdownBegin(t)
    \/ ShutdownHook(t)
    \/ ShutdownNext(t)
    \/ ShutdownClose(t)
    \/ ShutdownClear(t)

Probes ==
    \/ ProbeApp
    \/ ProbeConfig
    \/ \E name \in Names : ProbeAttr(name)
    \/ \E name \in Names : ProbeItem(name)

\* One caller that awaits each call before the next.
Next == (\E t \in SeqTasks : Step(t, ProjectIds, MaxObjects)) \/ Probes

Spec == Init /\ [][Next]_vars

\* Calls from several tasks, which overlap at the awaits.
NextConc == \E t \in Tasks : Step(t, ConcProjects, MaxObjectsConc)

SpecConc == Init /\ [][NextConc]_vars

\* ------------------------------------------------------- the /invoke gateway

\* json.dumps(out_msg.to_dict(), ensure_ascii=False) raises for a unit
\* whose content json cannot serialize.
DumpsRaises(k) == k = "undumpable"

\* The content of the line built for a unit of kind k: the unit's own
\* content, or the fallback's when json.dumps raised.
Line(k) == IF DumpsRaises(k) THEN "<serialization-error>" ELSE k

\* ("data: " + line + "\n\n").encode("utf-8") raises UnicodeEncodeError
\* when the text holds a lone surrogate.
Encodable(text) == text \notin {"unencodable", "boom-surrogate"}

\* The JSON a frame carries: a Msg dict ("msg") with its content and
\* whether its metadata has done = true, or an error object with its
\* message.
Frame(shape, content, done) == [shape |-> shape, content |-> content, done |-> done]

\* {"name": "assistant", "role": "assistant", "content": "",
\*  "metadata": {"done": True}}
DoneFrame == Frame("msg", "", TRUE)

\* {"error": {"code": "APP_ERROR", "message": str(e)}}
ErrorFrame(message) == Frame("error", message, FALSE)

\* build_app(runtime, platform_client)
BuildApp(client) ==
    /\ ~built
    /\ built' = TRUE
    /\ platform_client' = client
    /\ UNCHANGED <<request_count, active_sessions, request, http, ctx, stream,
                   units, frames, raised, evlog>>
    /\ UNCHANGED <<vars, chatserver, elsewhere>>

\* Msg.from_dict(message) raises for a dict it cannot build a Msg from.
FromDictRaises(message) == message # PyDict("msg")

\* The checks of invoke before the stream is built: the status of the
\* response and, for 200, the metadata given to SessionContext.  A body
\* that is JSON but no object has no get: the AttributeError is not
\* caught and the response is 500.
Validate(body) ==
    IF body.json = "invalid"
    THEN [status |-> 400, detail |-> "Invalid JSON", metadata |-> PyNone]
    ELSE IF body.json # "object"
    THEN [status |-> 500, detail |-> "AttributeError", metadata |-> PyNone]
    ELSE IF ~IsStr(body.session_id) \/ body.session_id.falsy
    THEN [status |-> 400, detail |-> "session_id is required", metadata |-> PyNone]
    ELSE IF ~IsDict(body.message)
    THEN [status |-> 400, detail |-> "message must be an object", metadata |-> PyNone]
    ELSE IF FromDictRaises(body.message)
    THEN [status |-> 400, detail |-> "invalid message", metadata |-> PyNone]
    ELSE IF ~IsDict(Or(body.metadata, PyEmptyDict))
    THEN [status |-> 400, detail |-> "metadata must be an object", metadata |-> PyNone]
    ELSE [status |-> 200, detail |-> "", metadata |-> Or(body.metadata, PyEmptyDict)]

\* SessionContext(session_id=session_id, metadata=metadata):
\* self.metadata = metadata or {}
SessionContext(session_id, metadata) ==
    [session_id |-> session_id, metadata |-> Or(metadata, PyEmptyDict)]

\* PlatformClient.record_request, called when there is a platform client
RecordRequest(session_id) ==
    IF platform_client = 0
    THEN UNCHANGED <<request_count, active_sessions>>
    ELSE /\ request_count' = request_count + 1
         /\ active_sessions' = active_sessions \cup {session_id}

\* No request is being served: none was accepted yet, or the stream of the
\* last one has ended.
NoStream == stream \in {"none", "end", "aborted", "closed"}

\* Mutant: the request is recorded before its fields are checked.
Invoke_recordsFirst(body) ==
    /\ built
    /\ CanProbe
    /\ NoStream
    /\ request_count < MaxRequests
    /\ request' = body
    /\ http' = Validate(body).status
    /\ units' = <<>>
    /\ frames' = <<>>
    /\ raised' = ""
    /\ evlog' = <<>>
    /\ RecordRequest(body.session_id.text)
    /\ IF Validate(body).status = 200
       THEN /\ ctx' = SessionContext(body.session_id.text, Validate(body).metadata)
            /\ stream' = "start"
       ELSE /\ ctx' = NoCtx
            /\ stream' = "none"
    /\ UNCHANGED <<built, platform_client>>
    /\ UNCHANGED <<vars, chatserver, elsewhere>>

\* POST /invoke with this body, up to the return of the StreamingResponse.
Invoke(body) ==
    /\ built
    /\ CanProbe
    /\ NoStream
    /\ request_count < MaxRequests
    /\ request' = body
    /\ http' = Validate(body).status
    /\ units' = <<>>
    /\ frames' = <<>>
    /\ raised' = ""
    /\ evlog' = <<>>
    /\ IF Validate(body).status = 200
       THEN /\ ctx' = SessionContext(body.session_id.text, Validate(body).metadata)
            /\ RecordRequest(body.session_id.text)
            /\ stream' = "start"
       ELSE /\ ctx' = NoCtx
            /\ stream' = "none"
            /\ UNCHANGED <<request_count, active_sessions>>
    /\ UNCHANGED <<built, platform_client>>
    /\ UNCHANGED <<vars, chatserver, elsewhere>>

\* What one step of event_iter adds to the log before the handler's answer:
\* the first step calls the handler, every step asks it for a unit.
Asked == IF stream = "start" THEN <<"invoke", "ask">> ELSE <<"ask">>

\* The first step of event_iter: app.state.runtime.app raises RuntimeError
\* because Runtime._app is None; the except clause yields the error unit.
StreamNotInitialized ==
    /\ stream = "start"
    /\ CanProbe
    /\ AppProperty.outcome = "raise"
    /\ frames' = Append(frames, ErrorFrame("Runtime is not initialized"))
    /\ evlog' = evlog \o <<"app_raises", "frame">>
    /\ stream' = "error_sent"
    /\ UNCHANGED <<built, platform_client, request_count, active_sessions,
                   request, http, ctx, units, raised>>
    /\ UNCHANGED <<vars, chatserver, elsewhere>>

\* The handler can be asked for a unit: the stream is at its start and
\* runtime.app returns the handler, or it is inside the loop.
CanAsk ==
    /\ CanProbe
    /\ \/ stream = "loop"
       \/ stream = "start" /\ AppProperty.outcome = "return"

\* A step of event_iter in which the handler yields a unit of kind k: the
\* line is built, with the fallback when json.dumps raises, and yielded
\* encoded.  When encode raises, the except clause of the outer try
\* yields an error unit and the loop is left.
StreamUnit(k) ==
    /\ CanAsk
    /\ Len(units) < MaxUnits
    /\ units' = Append(units, k)
    /\ evlog' = evlog \o Asked \o <<"unit", "frame">>
    /\ IF Encodable(Line(k))
       THEN /\ frames' = Append(frames, Frame("msg", Line(k), FALSE))
            /\ stream' = "loop"
       ELSE /\ frames' = Append(frames, ErrorFrame("UnicodeEncodeError"))
            /\ stream' = "error_sent"
    /\ UNCHANGED <<built, platform_client, request_count, active_sessions,
                   request, http, ctx, raised>>
    /\ UNCHANGED <<vars, chatserver, elsewhere>>

\* A step of event_iter in which the handler is exhausted: the loop ends
\* and the end signal is yielded.
StreamReturn ==
    /\ CanAsk
    /\ evlog' = evlog \o Asked \o <<"return", "frame">>
    /\ frames' = Append(frames, DoneFrame)
    /\ stream' = "done_sent"
    /\ UNCHANGED <<built, platform_client, request_count, active_sessions,
                   request, http, ctx, units, raised>>
    /\ UNCHANGED <<vars, chatserver, elsewhere>>

\* A step of event_iter in which the handler raises an Exception whose
\* str is text: the except clause builds the error unit and yields it
\* encoded.  When encode raises there, the exception leaves event_iter
\* and the response ends without another frame.
StreamRaise(text) ==
    /\ CanAsk
    /\ raised' = text
    /\ IF Encodable(text)
       THEN /\ frames' = Append(frames, ErrorFrame(text))
            /\ evlog' = evlog \o Asked \o <<"raise", "frame">>
            /\ stream' = "error_sent"
       ELSE /\ evlog' = evlog \o Asked \o <<"raise", "abort">>
            /\ stream' = "aborted"
            /\ UNCHANGED frames
    /\ UNCHANGED <<built, platform_client, request_count, active_sessions,
                   request, http, ctx, units>>
    /\ UNCHANGED <<vars, chatserver, elsewhere>>

\* The step of event_iter after the error unit: the end signal is yielded.
StreamDone ==
    /\ stream = "error_sent"
    /\ CanProbe
    /\ frames' = Append(frames, DoneFrame)
    /\ evlog' = Append(evlog, "frame")
    /\ stream' = "done_sent"
    /\ UNCHANGED <<built, platform_client, request_count, active_sessions,
                   request, http, ctx, units, raised>>
    /\ UNCHANGED <<vars, chatserver, elsewhere>>

\* The step of event_iter after the end signal: the generator returns.
StreamEnd ==
    /\ stream = "done_sent"
    /\ CanProbe
    /\ stream' = "end"
    /\ UNCHANGED <<built, platform_client, request_count, active_sessions,
                   request, http, ctx, units, frames, raised, evlog>>
    /\ UNCHANGED <<vars, chatserver, elsewhere>>

\* The project the gateway's runtime is initialized from, and the objects
\* one initialize of it creates.
InvokeProjects == {3}

MaxObjectsInvoke == 6

Gateway ==
    \/ \E client \in {0, 1} : BuildApp(client)
    \/ \E body \in Bodies : Invoke(body)
    \/ StreamNotInitialized
    \/ \E k \in UnitKinds : StreamUnit(k)
    \/ StreamReturn
    \/ \E text \in ErrorTexts : StreamRaise(text)
    \/ StreamDone
    \/ StreamEnd

\* The runtime's calls, made one at a time, and the gateway serving one
\* request at a time.
NextInvoke ==
    \/ \E t \in SeqTasks : Step(t, InvokeProjects, MaxObjectsInvoke)
    \/ Gateway

allvars == <<vars, gateway, chatserver, elsewhere>>

SpecInvoke == Init /\ [][NextInvoke]_allvars

\* ------------------------------------------------- the platform ChatServer

\* The bodies of POST /chat: bytes that are no JSON, a JSON array, or an
\* object with a message and, when it has one, a session_id.
ChatBody(json, message, session_id) ==
    [json |-> json, message |-> message, session_id |-> session_id]

ChatBodies ==
    {ChatBody("invalid", PyNone, PyNone), ChatBody("array", PyNone, PyNone)}
    \cup {ChatBody("object", m, s) : m \in {PyNone, PyStr(""), PyStr("hi")},
                                     s \in {PyNone, PyStr("s1")}}

\* body.get("session_id", "default") for a body with and without the key
SessionIdOf(body) ==
    IF body.session_id = PyNone THEN "default" ELSE body.session_id.text

\* The status chat answers with: 400 for bytes that are no JSON and for a
\* missing or empty message; a body that is JSON but no object has no get,
\* the AttributeError is not caught.
ChatStatus(body) ==
    IF body.json = "invalid" THEN 400
    ELSE IF body.json # "object" THEN 500
    ELSE IF body.message.falsy THEN 400
    ELSE 200

\* The blocks a chunk of the agent carries: one text, tool_use or
\* tool_result block, or no content.
ChunkKinds == {"text", "tool_use", "tool_result", "empty"}

\* The event type _stream_response yields for a block.
EventType(kind) ==
    IF kind = "text" THEN "text"
    ELSE IF kind = "tool_use" THEN "tool_call"
    ELSE "tool_result"

\* Mutant: the load is made with allow_not_exist=False.
AllowNotExist_false == FALSE

\* _load_session passes allow_not_exist=True.
AllowNotExist == TRUE

\* How backend.load(session_id, allow_not_exist) can end: it raises
\* ValueError for an absent session unless allow_not_exist, and any call
\* of the backend can fail with the connection.
LoadOutcomes(session_id, allow_not_exist) ==
    IF session_id \notin saved /\ ~allow_not_exist
    THEN {"ValueError", "Exception"}
    ELSE {"ok", "Exception"}

\* The agent's state once backend.load(session_id, allow_not_exist=True,
\* agent=self._agent) has returned: load_state_dict puts the record of the
\* session in its place; for a session never saved the call returns at
\* once and the agent keeps the state it has.
Loaded(session_id) ==
    IF session_id \in saved THEN records[session_id] ELSE agent

\* The agent's state once self._agent(message) is called for a request of
\* this session: the turn is added to what it holds.
AgentCalled(held, session_id) == held \cup {session_id}

\* ChatServer(agent, session_backend)
ChatServerInit(backend) ==
    /\ session_backend = "unset"
    /\ session_backend' = backend
    /\ UNCHANGED <<saved, agent, records, chat>>
    /\ UNCHANGED <<vars, gateway, elsewhere>>

\* POST /chat with this body, up to the return of the response: the
\* generator of _stream_response is created for an accepted request.
Chat(r, body) ==
    /\ session_backend # "unset"
    /\ chat[r].pc \in {"none", "end", "closed"}
    /\ chat' = [chat EXCEPT ![r] =
           [NoChat EXCEPT !.http = ChatStatus(body),
                          !.pc = IF ChatStatus(body) = 200 THEN "start" ELSE "none",
                          !.session_id = IF ChatStatus(body) = 200
                                         THEN SessionIdOf(body) ELSE ""]]
    /\ UNCHANGED <<session_backend, saved, agent, records>>
    /\ UNCHANGED <<vars, gateway, elsewhere>>

\* except Exception as e: yield the error event
Caught(c, error, what) ==
    [c EXCEPT !.pc = "error_sent", !.error = error,
              !.events = Append(c.events, "error"),
              !.log = c.log \o what \o <<"error">>]

\* The first step of _stream_response: _load_session returns at once
\* without a backend and the agent is called, else backend.load is awaited.
ChatStart(r) ==
    /\ chat[r].pc = "start"
    /\ chat' = [chat EXCEPT ![r] =
           IF session_backend = "None"
           THEN [chat[r] EXCEPT !.pc = "agent", !.log = <<"agent">>]
           ELSE [chat[r] EXCEPT !.pc = "loading", !.log = <<"load_start">>]]
    /\ agent' = IF session_backend = "None"
                THEN AgentCalled(agent, chat[r].session_id) ELSE agent
    /\ UNCHANGED <<session_backend, saved, records>>
    /\ UNCHANGED <<vars, gateway, elsewhere>>

\* backend.load returns, having found a payload or none, and the agent is
\* called, or it raises.
ChatLoaded(r) ==
    /\ chat[r].pc = "loading"
    /\ \E o \in LoadOutcomes(chat[r].session_id, AllowNotExist) :
         /\ chat' = [chat EXCEPT ![r] =
             IF o = "ok"
             THEN [chat[r] EXCEPT !.pc = "agent",
                                  !.log = chat[r].log \o
                                      <<IF chat[r].session_id \in saved
                                        THEN "found" ELSE "missing",
                                        "load_end", "agent">>]
             ELSE Caught(chat[r], o, <<"load_raise">>)]
         /\ agent' = IF o = "ok"
                     THEN AgentCalled(Loaded(chat[r].session_id),
                                      chat[r].session_id)
                     ELSE agent
    /\ UNCHANGED <<session_backend, saved, records>>
    /\ UNCHANGED <<vars, gateway, elsewhere>>

\* The agent yields a chunk: the event of its block is yielded.
ChatChunk(r, kind) ==
    /\ chat[r].pc = "agent"
    /\ chat[r].chunks < MaxChunks
    /\ chat' = [chat EXCEPT ![r] =
           IF kind = "empty"
           THEN [chat[r] EXCEPT !.chunks = chat[r].chunks + 1,
                                !.log = chat[r].log \o <<"chunk">>]
           ELSE [chat[r] EXCEPT !.chunks = chat[r].chunks + 1,
                                !.events = Append(chat[r].events, EventType(kind)),
                                !.log = chat[r].log \o <<"chunk", "event">>]]
    /\ UNCHANGED <<session_backend, saved, agent, records>>
    /\ UNCHANGED <<vars, gateway, elsewhere>>

\* The agent raises.
ChatAgentRaise(r) ==
    /\ chat[r].pc = "agent"
    /\ chat' = [chat EXCEPT ![r] = Caught(chat[r], "Exception", <<"agent_raise">>)]
    /\ UNCHANGED <<session_backend, saved, agent, records>>
    /\ UNCHANGED <<vars, gateway, elsewhere>>

\* The agent's output is exhausted: _save_session returns at once without
\* a backend and the done event is yielded, else backend.save is awaited.
ChatExhausted(r) ==
    /\ chat[r].pc = "agent"
    /\ chat' = [chat EXCEPT ![r] =
           IF session_backend = "None"
           THEN [chat[r] EXCEPT !.pc = "done_sent",
                                !.events = Append(chat[r].events, "done"),
                                !.log = chat[r].log \o <<"exhausted", "done">>]
           ELSE [chat[r] EXCEPT !.pc = "saving",
                                !.log = chat[r].log \o <<"exhausted", "save_start">>]]
    /\ UNCHANGED <<session_backend, saved, agent, records>>
    /\ UNCHANGED <<vars, gateway, elsewhere>>

\* backend.save returns, having written the payload, and the done event is
\* yielded, or it raises.
ChatSaved(r) ==
    /\ chat[r].pc = "saving"
    /\ \E o \in {"ok", "Exception"} :
         IF o = "ok"
         THEN /\ saved' = saved \cup {chat[r].session_id}
              /\ records' = [records EXCEPT ![chat[r].session_id] = agent]
              /\ chat' = [chat EXCEPT ![r] =
                     [chat[r] EXCEPT !.pc = "done_sent",
                                     !.events = Append(chat[r].events, "done"),
                                     !.log = chat[r].log \o <<"save_end", "done">>]]
         ELSE /\ chat' = [chat EXCEPT ![r] = Caught(chat[r], o, <<"save_raise">>)]
              /\ UNCHANGED <<saved, records>>
    /\ UNCHANGED <<session_backend, agent>>
    /\ UNCHANGED <<vars, gateway, elsewhere>>

\* The step after the done or error event: the generator returns.
ChatEnd(r) ==
    /\ chat[r].pc \in {"done_sent", "error_sent"}
    /\ chat' = [chat EXCEPT ![r].pc = "end"]
    /\ UNCHANGED <<session_backend, saved, agent, records>>
    /\ UNCHANGED <<vars, gateway, elsewhere>>

\* A ChatServer, with or without a session backend, serving one request
\* after the other.
NextChat ==
    \/ \E backend \in {"None", "backend"} : ChatServerInit(backend)
    \/ \E r \in ChatRequests :
         \/ \E body \in ChatBodies : Chat(r, body)
         \/ ChatStart(r)
         \/ ChatLoaded(r)
         \/ \E kind \in ChunkKinds : ChatChunk(r, kind)
         \/ ChatAgentRaise(r)
         \/ ChatExhausted(r)
         \/ ChatSaved(r)
         \/ ChatEnd(r)

SpecChat == Init /\ [][NextChat]_allvars

\* ----------------------------------------------------- the platform client

\* What the PlatformClient leaves alone: the gateway but for the two metric
\* fields, which are the client's own, and everything else.
offPlatform == <<vars, built, platform_client, request, http, ctx, stream,
                 units, frames, raised, evlog, chatserver, sessions,
                 database, configfile, process>>

Constructed == platform_config # NoClient

\* PlatformClient.__init__(config, runtime); the endpoint and the
\* instance_id of the config are None ("None") or a string ("set").
PlatformClientInit(endpoint, instance_id) ==
    /\ ~Constructed
    /\ platform_config' = [endpoint |-> endpoint, instance_id |-> instance_id]
    /\ UNCHANGED <<heartbeat_task, loop, payload, stopping, exited, sent,
                   last_call, stopped, recorded, request_count,
                   active_sessions>>
    /\ UNCHANGED offPlatform

\* PlatformClient.enabled
Enabled ==
    /\ platform_config.endpoint # "None"
    /\ platform_config.instance_id # "None"

Call(op, ended) == [op |-> op, result |-> ended]

\* PlatformClient.record_request(session_id), called on the client itself
ClientRecordRequest(session_id) ==
    /\ Constructed
    /\ ~exited
    /\ Len(recorded) < MaxRequests
    /\ request_count' = request_count + 1
    /\ active_sessions' = active_sessions \cup {session_id}
    /\ recorded' = Append(recorded, session_id)
    /\ UNCHANGED <<platform_config, heartbeat_task, loop, payload, stopping,
                   exited, sent, last_call, stopped>>
    /\ UNCHANGED offPlatform

GetMetrics_stale == payload

\* PlatformClient._get_metrics(): the two counters of the payload
GetMetrics ==
    [total_requests |-> request_count,
     active_sessions |-> Cardinality(active_sessions)]

\* The subclasses of Exception among what a task can meet: CancelledError,
\* SystemExit and GeneratorExit derive from BaseException only.
IsException(e) ==
    e \notin {"CancelledError", "SystemExit", "GeneratorExit"}

\* _send_heartbeat up to its first await: it returns at once when not
\* enabled, else it issues one POST.
SendHeartbeat ==
    IF ~Enabled THEN sent ELSE [sent EXCEPT !.heartbeat = @ + 1]

\* _check_config_update up to its first await: it returns "none" at once
\* when not enabled, else it issues one GET.
CheckConfigUpdateSent(before) ==
    IF ~Enabled THEN before ELSE [before EXCEPT !.poll = @ + 1]

\* How a config GET ends: an exception, a status other than 200, or 200
\* with a body that is no JSON, a JSON array, or an object: one whose
\* updated is true and whose action is any string or missing, or one that
\* asks for a restart with updated false or missing.
Response(status, body, updated, action) ==
    [status |-> status, body |-> body, updated |-> updated,
     action |-> action]

PollResponses ==
    {Response(f, "none", "none", "none") :
        f \in {"ClientError", "TimeoutError"}}
    \cup {Response("500", "none", "none", "none"),
          Response("200", "invalid", "none", "none"),
          Response("200", "array", "none", "none")}
    \cup {Response("200", "object", "true", a) :
            a \in {"restart", "reload", "none", "other", "missing"}}
    \cup {Response("200", "object", u, "restart") :
            u \in {"false", "missing"}}

CheckConfigUpdate_anyRestart(r) ==
    IF r.status # "200" THEN "none"
    ELSE IF r.body # "object" THEN "none"
    ELSE IF r.action = "missing" THEN "none" ELSE r.action

\* What _check_config_update returns for the response r: the except clause
\* turns a failed request, and a body that response.json() or data.get
\* raises on, into "none"; so does an updated that is not truthy.
CheckConfigUpdate(r) ==
    IF r.status # "200" THEN "none"
    ELSE IF r.body # "object" THEN "none"
    ELSE IF r.updated # "true" THEN "none"
    ELSE IF r.action = "missing" THEN "none" ELSE r.action

\* PlatformClient.start(): a no-op when not enabled, else a new task running
\* _heartbeat_loop, stored over whatever task the field held.
Start ==
    /\ Constructed
    /\ ~exited
    /\ IF ~Enabled
       THEN /\ last_call' = Call("start", "noop")
            /\ UNCHANGED <<heartbeat_task, loop, stopped>>
       ELSE \E i \in Loops :
            /\ loop[i].pc = "none"
            /\ \A j \in Loops : j < i => loop[j].pc # "none"
            /\ loop' = [loop EXCEPT ![i].pc = "created"]
            /\ heartbeat_task' = i
            /\ last_call' = Call("start", "task")
            /\ stopped' = FALSE
    /\ UNCHANGED <<platform_config, payload, stopping, exited, sent, recorded,
                   request_count, active_sessions>>
    /\ UNCHANGED offPlatform

Finished(i) == loop[i].pc \in {"done", "cancelled"}

\* PlatformClient.stop() up to its await: nothing to do without a task,
\* else task.cancel() and await task.
Stop ==
    /\ Constructed
    /\ ~exited
    /\ stopping = 0
    /\ IF heartbeat_task = 0
       THEN /\ last_call' = Call("stop", "noop")
            /\ stopped' = TRUE
            /\ UNCHANGED <<loop, stopping>>
       ELSE /\ loop' = [loop EXCEPT ![heartbeat_task].must_cancel =
                                        ~Finished(heartbeat_task)]
            /\ stopping' = heartbeat_task
            /\ last_call' = Call("stop", "awaiting")
            /\ UNCHANGED stopped
    /\ UNCHANGED <<platform_config, heartbeat_task, payload, exited, sent,
                   recorded, request_count, active_sessions>>
    /\ UNCHANGED offPlatform

\* What await task gives stop() once the task has ended.
Awaited(i) == IF loop[i].pc = "cancelled" THEN "CancelledError" ELSE "ok"

\* stop() after its await: a CancelledError of the task is passed over
\* (except asyncio.CancelledError: pass) and the field is cleared; anything
\* else the await raises leaves stop().
StopReturn ==
    /\ stopping # 0
    /\ ~exited
    /\ Finished(stopping)
    /\ stopping' = 0
    /\ IF Awaited(stopping) \in {"ok", "CancelledError"}
       THEN /\ heartbeat_task' = 0
            /\ last_call' = Call("stop", "returned")
            /\ stopped' = TRUE
       ELSE /\ last_call' = Call("stop", Awaited(stopping))
            /\ UNCHANGED <<heartbeat_task, stopped>>
    /\ UNCHANGED <<platform_config, loop, payload, exited, sent, recorded,
                   request_count, active_sessions>>
    /\ UNCHANGED offPlatform

\* A loop task can take a step of its own: it exists, has not ended, and
\* no cancellation is waiting to be thrown into it.
Running(i) ==
    /\ ~exited
    /\ loop[i].pc \in {"created", "heartbeat", "poll", "sleep"}
    /\ ~loop[i].must_cancel

\* _heartbeat_loop: the task starts, or its sleep is over, and the next
\* iteration runs up to the await of its first request.
LoopRound(i) ==
    /\ Running(i)
    /\ loop[i].pc \in {"created", "sleep"}
    /\ loop[i].rounds < MaxRounds
    /\ IF Enabled
       THEN /\ payload' = GetMetrics
            /\ sent' = SendHeartbeat
            /\ loop' = [loop EXCEPT ![i].pc = "heartbeat",
                                    ![i].rounds = @ + 1,
                                    ![i].poll = NoResponse,
                                    ![i].action = "none"]
       ELSE /\ sent' = CheckConfigUpdateSent(SendHeartbeat)
            /\ loop' = [loop EXCEPT ![i].pc = "sleep", ![i].rounds = @ + 1,
                                    ![i].poll = NoResponse,
                                    ![i].action = "none"]
            /\ UNCHANGED payload
    /\ UNCHANGED <<platform_config, heartbeat_task, stopping, exited,
                   last_call, stopped, recorded, request_count,
                   active_sessions>>
    /\ UNCHANGED offPlatform

AfterHeartbeat_propagates(outcome) ==
    IF outcome \in {"200", "500"} THEN "poll" ELSE "sleep"

\* Where the loop goes when its heartbeat POST ended with outcome: the
\* except clause of _send_heartbeat takes every Exception, a status other
\* than 200 is only logged, and the config poll follows.
AfterHeartbeat(outcome) ==
    IF outcome \in {"200", "500"} \/ IsException(outcome)
    THEN "poll" ELSE "sleep"

\* The heartbeat POST of task i ends with a status or with the exception
\* aiohttp raises; _send_heartbeat returns and _check_config_update runs up
\* to its GET.
LoopHeartbeatDone(i, outcome) ==
    /\ Running(i)
    /\ loop[i].pc = "heartbeat"
    /\ loop' = [loop EXCEPT ![i].pc = AfterHeartbeat(outcome),
                            ![i].heartbeat = outcome]
    /\ sent' = IF AfterHeartbeat(outcome) = "poll"
               THEN CheckConfigUpdateSent(sent) ELSE sent
    /\ UNCHANGED <<platform_config, heartbeat_task, payload, stopping,
                   exited, last_call, stopped, recorded, request_count,
                   active_sessions>>
    /\ UNCHANGED offPlatform

\* The config GET of task i ends: sys.exit(0) on "restart", else the sleep.
LoopPollDone(i, response) ==
    /\ Running(i)
    /\ loop[i].pc = "poll"
    /\ LET action == CheckConfigUpdate(response)
       IN  /\ loop' = [loop EXCEPT
                         ![i].pc = IF action = "restart" THEN "exited"
                                   ELSE "sleep",
                         ![i].heartbeat = "none",
                         ![i].poll = response,
                         ![i].action = action]
           /\ exited' = (action = "restart")
    /\ UNCHANGED <<platform_config, heartbeat_task, payload, stopping, sent,
                   last_call, stopped, recorded, request_count,
                   active_sessions>>
    /\ UNCHANGED offPlatform

\* Where a CancelledError thrown at position at leaves the task: no except
\* Exception takes it; inside the try the loop breaks and the task returns,
\* at the sleep and before the first step the task ends cancelled.
AfterCancel(at) ==
    IF at \in {"heartbeat", "poll"}
    THEN IF IsException("CancelledError") THEN "sleep" ELSE "done"
    ELSE "cancelled"

\* The CancelledError of task.cancel() is thrown into task i.
LoopCancelled(i) ==
    /\ ~exited
    /\ loop[i].must_cancel
    /\ loop' = [loop EXCEPT ![i] = [NoLoop EXCEPT
                                      !.pc = AfterCancel(loop[i].pc),
                                      !.rounds = loop[i].rounds]]
    /\ UNCHANGED <<platform_config, heartbeat_task, payload, stopping,
                   exited, sent, last_call, stopped, recorded, request_count,
                   active_sessions>>
    /\ UNCHANGED offPlatform

\* _send_heartbeat() called on a client that is not enabled (the loop is
\* its only caller on an enabled one).
SendHeartbeatDisabled ==
    /\ Constructed
    /\ ~Enabled
    /\ sent' = SendHeartbeat
    /\ last_call' = Call("_send_heartbeat", "None")
    /\ UNCHANGED <<platform_config, heartbeat_task, loop, payload, stopping,
                   exited, stopped, recorded, request_count, active_sessions>>
    /\ UNCHANGED offPlatform

\* _check_config_update() called on a client that is not enabled: "none".
CheckConfigUpdateDisabled ==
    /\ Constructed
    /\ ~Enabled
    /\ sent' = CheckConfigUpdateSent(sent)
    /\ last_call' = Call("_check_config_update", "none")
    /\ UNCHANGED <<platform_config, heartbeat_task, loop, payload, stopping,
                   exited, stopped, recorded, request_count, active_sessions>>
    /\ UNCHANGED offPlatform

NextPlatform ==
    \/ \E endpoint \in {"None", "set"}, instance_id \in {"None", "set"} :
         PlatformClientInit(endpoint, instance_id)
    \/ \E session_id \in {"s1", "s2"} : ClientRecordRequest(session_id)
    \/ Start
    \/ Stop
    \/ StopReturn
    \/ \E i \in Loops : LoopRound(i)
    \/ \E i \in Loops,
          outcome \in {"200", "500", "ClientError", "TimeoutError"} :
         LoopHeartbeatDone(i, outcome)
    \/ \E i \in Loops, response \in PollResponses : LoopPollDone(i, response)
    \/ \E i \in Loops : LoopCancelled(i)
    \/ SendHeartbeatDisabled
    \/ CheckConfigUpdateDisabled

SpecPlatform == Init /\ [][NextPlatform]_allvars

\* ------------------------------------------------------ session backends

\* Mutant: the constructor makes the client or engine.
CreateSessionBackend_connects(kind) ==
    /\ backend_kind = "unset"
    /\ backend_kind' = kind
    /\ engine' = IF kind = "file" THEN "None" ELSE "created"
    /\ UNCHANGED <<store, components, backend_call, reachable>>
    /\ UNCHANGED offSessions

\* create_session_backend(backend_type, url, **kwargs): the file backend,
\* the Redis backend without or with a ttl, or the database backend.  The
\* constructors store the url and set self._redis, self._engine to None.
CreateSessionBackend(kind) ==
    /\ backend_kind = "unset"
    /\ backend_kind' = kind
    /\ engine' = "None"
    /\ UNCHANGED <<store, components, backend_call, reachable>>
    /\ UNCHANGED offSessions

\* The caller's component named n comes to the state v: "x" holds strings,
\* numbers and mappings with string keys only, "t" holds a tuple, and "u"
\* holds a string with a lone surrogate.  ("l" is "t" with a list of the
\* same items in place of the tuple.)
SetState(n, v) ==
    /\ backend_kind # "unset"
    /\ components' = [components EXCEPT ![n] = v]
    /\ UNCHANGED <<backend_kind, store, backend_call, engine, reachable>>
    /\ UNCHANGED offSessions

\* What _get_client leaves in self._redis and _ensure_table in
\* self._engine: the client or engine, made by the first call that needs
\* it.  The file backend has neither.
GetClient(kind) == IF kind = "file" THEN "None" ELSE "created"

\* The first command sent (Redis), or the engine.begin() of _ensure_table
\* (database), opens the connection and raises when the server is not
\* reachable; no method of the backends catches it.
ConnectRaises(kind) == kind # "file" /\ ~reachable

\* The payload json.dumps makes of the state dicts.
Payload(states) == [n \in DOMAIN states |-> Dumps[states[n]]]

\* The write of text raises: the file is opened with
\* errors="surrogatepass"; the Redis client and the database driver encode
\* the text as strict UTF-8.
WriteRaises(kind, data) ==
    kind # "file" /\ \E n \in DOMAIN data : data[n] = "ju"

\* save(session_id, **state_modules_mapping): the record under the key of
\* session_id becomes the payload, whatever it was.
Save(session_id, names) ==
    /\ backend_kind # "unset"
    /\ LET states == [n \in names |-> components[n]]
           data == Payload(states)
           key == GetKey(backend_kind, session_id)
       IN  IF ConnectRaises(backend_kind) \/ WriteRaises(backend_kind, data)
           THEN /\ backend_call' = BackendCall("save", session_id, names,
                                      states, TRUE,
                                      IF ConnectRaises(backend_kind)
                                      THEN "ConnectionError"
                                      ELSE "UnicodeEncodeError")
                /\ UNCHANGED store
           ELSE /\ backend_call' = BackendCall("save", session_id, names,
                                      states, TRUE, "ok")
                /\ store' = [store EXCEPT ![key] = Stored(data)]
    /\ engine' = GetClient(backend_kind)
    /\ UNCHANGED <<backend_kind, components, reachable>>
    /\ UNCHANGED offSessions

NotFound_silent(allow_not_exist) == "ok"

\* if not allow_not_exist: raise ValueError(...); return
NotFound(allow_not_exist) == IF allow_not_exist THEN "ok" ELSE "ValueError"

\* for name, state_module in ...: if name in states:
\*     state_module.load_state_dict(states[name])
LoadStateDicts_all(names, data) ==
    [n \in ComponentNames |->
        IF n \in DOMAIN data THEN Loads[data[n]] ELSE components[n]]

LoadStateDicts(names, data) ==
    [n \in ComponentNames |->
        IF n \in names /\ n \in DOMAIN data
        THEN Loads[data[n]] ELSE components[n]]

\* load(session_id, allow_not_exist, **state_modules_mapping)
Load(session_id, allow_not_exist, names) ==
    /\ backend_kind # "unset"
    /\ LET record == store[GetKey(backend_kind, session_id)]
       IN  IF ConnectRaises(backend_kind) \/ ~record.present
           THEN /\ backend_call' = BackendCall("load", session_id, names,
                                      <<>>, allow_not_exist,
                                      IF ConnectRaises(backend_kind)
                                      THEN "ConnectionError"
                                      ELSE NotFound(allow_not_exist))
                /\ UNCHANGED components
           ELSE /\ backend_call' = BackendCall("load", session_id, names,
                                      <<>>, allow_not_exist, "ok")
                /\ components' = LoadStateDicts(names, record.data)
    /\ engine' = GetClient(backend_kind)
    /\ UNCHANGED <<backend_kind, store, reachable>>
    /\ UNCHANGED offSessions

\* delete(session_id)
Delete(session_id) ==
    /\ backend_kind # "unset"
    /\ LET key == GetKey(backend_kind, session_id)
       IN  store' = [store EXCEPT ![key] =
                        IF store[key].present /\ ~ConnectRaises(backend_kind)
                        THEN [NoRecord EXCEPT !.deleted = TRUE] ELSE @]
    /\ backend_call' = BackendCall("delete", session_id, {}, <<>>, TRUE,
                            IF ConnectRaises(backend_kind)
                            THEN "ConnectionError" ELSE "ok")
    /\ engine' = GetClient(backend_kind)
    /\ UNCHANGED <<backend_kind, components, reachable>>
    /\ UNCHANGED offSessions

\* exists(session_id)
Exists(session_id) ==
    /\ backend_kind # "unset"
    /\ backend_call' = BackendCall("exists", session_id, {}, <<>>, TRUE,
                            IF ConnectRaises(backend_kind)
                            THEN "ConnectionError"
                            ELSE IF store[GetKey(backend_kind, session_id)].present
                            THEN "True" ELSE "False")
    /\ engine' = GetClient(backend_kind)
    /\ UNCHANGED <<backend_kind, store, components, reachable>>
    /\ UNCHANGED offSessions

\* The ttl of a key written with setex runs out.
Expire(key) ==
    /\ backend_kind = "redis_ttl"
    /\ store[key].present
    /\ store' = [store EXCEPT ![key] = NoRecord]
    /\ backend_call' = BackendCall("expire", key, {}, <<>>, TRUE, "ok")
    /\ UNCHANGED <<backend_kind, components, engine, reachable>>
    /\ UNCHANGED offSessions

NextSessions ==
    \/ \E kind \in {"file", "redis", "redis_ttl", "database"} :
         CreateSessionBackend(kind)
    \/ \E n \in ComponentNames, v \in {"x", "t", "u"} : SetState(n, v)
    \/ \E session_id \in StoreIds, names \in ComponentSets :
         Save(session_id, names)
    \/ \E session_id \in StoreIds, allow_not_exist \in BOOLEAN,
          names \in ComponentSets : Load(session_id, allow_not_exist, names)
    \/ \E session_id \in StoreIds : Delete(session_id)
    \/ \E session_id \in StoreIds : Exists(session_id)
    \/ \E key \in StoreIds : Expire(key)

SpecSessions == Init /\ [][NextSessions]_allvars

\* The server behind the url of a Redis or database backend goes down or
\* comes back, at any time before or after the backend is constructed.
Reach(up) ==
    /\ backend_kind # "file"
    /\ reachable # up
    /\ reachable' = up
    /\ UNCHANGED <<backend_kind, store, components, backend_call, engine>>
    /\ UNCHANGED offSessions

\* The calls on a session backend whose server may be unreachable.
NextConnect ==
    \/ \E kind \in {"file", "redis", "redis_ttl", "database"} :
         CreateSessionBackend(kind)
    \/ \E up \in BOOLEAN : Reach(up)
    \/ \E session_id \in StoreIds : Save(session_id, {"memory"})
    \/ \E session_id \in StoreIds, allow_not_exist \in BOOLEAN :
         Load(session_id, allow_not_exist, {"memory"})
    \/ \E session_id \in StoreIds : Delete(session_id)
    \/ \E session_id \in StoreIds : Exists(session_id)

SpecConnect == Init /\ [][NextConnect]_allvars

\* ----------------------------------------- the database backend's saves

\* DatabaseSessionBackend.__init__(url): the url fixes the dialect.
DatabaseSessionBackendInit(d) ==
    /\ dialect = "unset"
    /\ dialect' = d
    /\ UNCHANGED <<db_initialized, has_table, table, tx, saves>>
    /\ UNCHANGED offDatabase

\* The session id every save writes.
SavedId == "a"

\* save(session_id, ...) begins: _ensure_table returns at once when the
\* flag is set and the transaction is opened; else the engine is made and
\* create_all looks for the table.
SaveBegin(t, data) ==
    /\ dialect # "unset"
    /\ tx[t].pc \in {"idle", "done", "failed"}
    /\ saves < MaxSaves
    /\ saves' = saves + 1
    /\ tx' = [tx EXCEPT ![t] = [NoTx EXCEPT
                !.pc = IF db_initialized THEN "begun" ELSE "creating",
                !.data = data,
                !.saw_table = has_table]]
    /\ UNCHANGED <<dialect, db_initialized, has_table, table>>
    /\ UNCHANGED offDatabase

\* create_all ends: CREATE TABLE fails when another call has created the
\* table since this one looked; else the table exists, the flag is set and
\* the transaction of save is opened.
CreateAll(t) ==
    /\ tx[t].pc = "creating"
    /\ IF has_table /\ ~tx[t].saw_table
       THEN /\ tx' = [tx EXCEPT ![t].pc = "failed",
                                ![t].error = "TableExists"]
            /\ UNCHANGED <<db_initialized, has_table>>
       ELSE /\ tx' = [tx EXCEPT ![t].pc = "begun"]
            /\ db_initialized' = TRUE
            /\ has_table' = TRUE
    /\ UNCHANGED <<dialect, table, saves>>
    /\ UNCHANGED offDatabase

\* The dialect has INSERT ... ON CONFLICT DO UPDATE.
NativeUpsert(d) == d \in {"postgresql", "sqlite"}

\* The committed rows of the id.
RowsOf(session_id) == {r \in table : r.session_id = session_id}

\* Another transaction has written the key and not committed: a statement
\* that writes the same key waits for it (row locks under READ COMMITTED,
\* the writer lock of SQLite).
Locked(t, session_id) ==
    \E u \in Savers \ {t} :
        \E r \in tx[u].deleted \cup tx[u].inserted :
            r.session_id = session_id

\* conn.execute(insert(...).on_conflict_do_update(...)): one statement
\* replaces the row of the id or inserts it.
SaveUpsert(t) ==
    /\ tx[t].pc = "begun"
    /\ NativeUpsert(dialect)
    /\ ~Locked(t, SavedId)
    /\ tx' = [tx EXCEPT ![t].pc = "executed",
                        ![t].deleted = RowsOf(SavedId),
                        ![t].inserted = {Row(SavedId, tx[t].data)}]
    /\ UNCHANGED <<dialect, db_initialized, has_table, table, saves>>
    /\ UNCHANGED offDatabase

\* The fallback's conn.execute(delete(...)): the committed row of the id,
\* if there is one, is deleted.
SaveDelete(t) ==
    /\ tx[t].pc = "begun"
    /\ ~NativeUpsert(dialect)
    /\ RowsOf(SavedId) # {} => ~Locked(t, SavedId)
    /\ tx' = [tx EXCEPT ![t].pc = "deleted",
                        ![t].deleted = RowsOf(SavedId)]
    /\ UNCHANGED <<dialect, db_initialized, has_table, table, saves>>
    /\ UNCHANGED offDatabase

\* The fallback's conn.execute(insert(...)): it waits for an uncommitted
\* row of the same key; a committed row of the key that this transaction
\* has not deleted makes it fail with a duplicate-key IntegrityError, and
\* engine.begin() rolls the transaction back.
SaveInsert(t) ==
    /\ tx[t].pc = "deleted"
    /\ ~Locked(t, SavedId)
    /\ IF RowsOf(SavedId) \ tx[t].deleted # {}
       THEN tx' = [tx EXCEPT ![t].pc = "failed",
                             ![t].error = "IntegrityError",
                             ![t].deleted = {}]
       ELSE tx' = [tx EXCEPT ![t].pc = "executed",
                             ![t].inserted = {Row(SavedId, tx[t].data)}]
    /\ UNCHANGED <<dialect, db_initialized, has_table, table, saves>>
    /\ UNCHANGED offDatabase

\* engine.begin() commits on leaving the block.
SaveCommit(t) ==
    /\ tx[t].pc = "executed"
    /\ table' = (table \ tx[t].deleted) \cup tx[t].inserted
    /\ tx' = [tx EXCEPT ![t].pc = "done", ![t].deleted = {},
                        ![t].inserted = {}]
    /\ UNCHANGED <<dialect, db_initialized, has_table, saves>>
    /\ UNCHANGED offDatabase

NextDatabase ==
    \/ \E d \in {"postgresql", "sqlite", "mssql"} :
         DatabaseSessionBackendInit(d)
    \/ \E t \in Savers, data \in Payloads : SaveBegin(t, data)
    \/ \E t \in Savers : CreateAll(t)
    \/ \E t \in Savers : SaveUpsert(t)
    \/ \E t \in Savers : SaveDelete(t)
    \/ \E t \in Savers : SaveInsert(t)
    \/ \E t \in Savers : SaveCommit(t)

SpecDatabase == Init /\ [][NextDatabase]_allvars

\* ------------------------------------------------------------- load_config

\* What load_config leaves alone.
offConfig == <<vars, gateway, chatserver, platform, sessions, database,
               process>>

\* os.environ: the value of each variable, <<>> for one that is not set.
Environ == [SET |-> <<"v">>, EMPTY |-> <<"">>, SSE |-> <<"sse">>,
            UNSET |-> <<>>, GONE |-> <<>>]

\* A string is its pieces in order: literal text, or a ${VAR} placeholder.
Lit(text) == [var |-> "", lit |-> text]
Ref(var) == [var |-> var, lit |-> ""]

\* The values yaml.safe_load gives: None, a number, a string, a list, or a
\* dict (its items in order, each a key and a value).  Absent marks a key
\* the document does not have.
Null == [type |-> "null", tokens |-> <<>>, items |-> <<>>]
Num == [type |-> "int", tokens |-> <<>>, items |-> <<>>]
Str(tokens) == [type |-> "str", tokens |-> tokens, items |-> <<>>]
List(items) == [type |-> "list", tokens |-> <<>>, items |-> items]
Item(key, value) == [key |-> key, value |-> value]
Absent == [type |-> "absent", tokens |-> <<>>, items |-> <<>>]
Dict(items) ==
    [type |-> "dict", tokens |-> <<>>,
     items |-> SelectSeq(items, LAMBDA i : i.value # Absent)]

\* A result: the value returned, or the thing the ValueError raised names
\* (a variable, or the field of an entry).
Parsed(value) == [names |-> <<>>, value |-> value]
Invalid(kind, name, field) == [names |-> <<kind, name, field>>, value |-> <<>>]

\* The first result of the sequence that is an error, else the values.
All(results) ==
    LET bad == {k \in 1..Len(results) : results[k].names # <<>>}
    IN  IF bad = {}
        THEN Parsed([k \in 1..Len(results) |-> results[k].value])
        ELSE results[CHOOSE k \in bad : \A j \in bad : k <= j]

\* _expand_env_vars on a string: pattern.findall(value) gives the variables
\* of its placeholders from left to right; the first that os.environ.get
\* returns None for raises, the others are replaced by their values.
ExpandString(tokens) ==
    All([k \in 1..Len(tokens) |->
            IF tokens[k].var = "" THEN Parsed(tokens[k])
            ELSE IF Environ[tokens[k].var] = <<>>
            THEN Invalid("variable", tokens[k].var, "")
            ELSE Parsed(Lit(Environ[tokens[k].var][1]))])

RECURSIVE ExpandEnvVars(_)

\* Mutant: a list is returned as it is.
ExpandEnvVars_skipsLists(value) ==
    IF value.type = "str"
    THEN LET e == ExpandString(value.tokens)
         IN  IF e.names # <<>> THEN e ELSE Parsed(Str(e.value))
    ELSE IF value.type = "dict"
    THEN LET e == All([k \in 1..Len(value.items) |->
                          ExpandEnvVars(value.items[k].value)])
         IN  IF e.names # <<>> THEN e
             ELSE Parsed(Dict([k \in 1..Len(value.items) |->
                                  Item(value.items[k].key, e.value[k])]))
    ELSE Parsed(value)

\* _expand_env_vars(value): a string is expanded, the values of a dict and
\* the items of a list are expanded in order, anything else is returned as
\* it is.  The keys of a dict are not looked at.
ExpandEnvVars(value) ==
    IF value.type = "str"
    THEN LET e == ExpandString(value.tokens)
         IN  IF e.names # <<>> THEN e ELSE Parsed(Str(e.value))
    ELSE IF value.type = "dict"
    THEN LET e == All([k \in 1..Len(value.items) |->
                          ExpandEnvVars(value.items[k].value)])
         IN  IF e.names # <<>> THEN e
             ELSE Parsed(Dict([k \in 1..Len(value.items) |->
                                  Item(value.items[k].key, e.value[k])]))
    ELSE IF value.type = "list"
    THEN LET e == All([k \in 1..Len(value.items) |->
                          ExpandEnvVars(value.items[k])])
         IN  IF e.names # <<>> THEN e ELSE Parsed(List(e.value))
    ELSE Parsed(value)

\* entry.get(key): the value under the key, None when there is none.
Get(entry, key) ==
    LET at == {k \in 1..Len(entry.items) : entry.items[k].key = key}
    IN  IF at = {} THEN Null ELSE entry.items[CHOOSE k \in at : TRUE].value

\* raw_config.get(key, {}).items()
Items(entry, key) ==
    IF \E k \in 1..Len(entry.items) : entry.items[k].key = key
    THEN Get(entry, key).items ELSE <<>>

\* _parse_model_config(name, config)
ParseModelConfig(name, entry) ==
    IF Get(entry, "provider") = Null
    THEN Invalid("model", name, "provider")
    ELSE IF Get(entry, "model") = Null
    THEN Invalid("model", name, "model")
    ELSE Parsed([name |-> name, provider |-> Get(entry, "provider"),
                 model |-> Get(entry, "model")])

\* _parse_mcp_server_config(name, config)
ParseMcpServerConfig(name, entry) ==
    IF Get(entry, "url") = Null
    THEN Invalid("mcp", name, "url")
    ELSE IF Get(entry, "transport") = Null
    THEN Invalid("mcp", name, "transport")
    ELSE IF Get(entry, "transport") \notin
                {Str(<<Lit("sse")>>), Str(<<Lit("streamable_http")>>)}
    THEN Invalid("mcp", name, "invalid transport")
    ELSE Parsed([name |-> name, url |-> Get(entry, "url"),
                 transport |-> Get(entry, "transport")])

\* What load_config returns or raises for the document of the file:
\* yaml.safe_load(f) or {}, the expansion of the whole document, then the
\* model entries and the MCP server entries in declared order.
RuntimeConfig(document) ==
    LET raw == ExpandEnvVars(IF document = Null THEN Dict(<<>>) ELSE document)
    IN  IF raw.names # <<>> THEN raw
        ELSE LET ms == Items(raw.value, "models")
                 ss == Items(raw.value, "mcp_servers")
                 parsed == All([k \in 1..Len(ms) |->
                                ParseModelConfig(ms[k].key, ms[k].value)])
                 servers == All([k \in 1..Len(ss) |->
                                ParseMcpServerConfig(ss[k].key, ss[k].value)])
             IN  IF parsed.names # <<>> THEN parsed
                 ELSE IF servers.names # <<>> THEN servers
                 ELSE Parsed([models |-> parsed.value,
                              mcp_servers |-> servers.value])

\* The fields of the entries of the documents.
Providers == {Absent, Null, Str(<<Lit("openai")>>), Str(<<Ref("SET")>>),
              Str(<<Ref("UNSET")>>)}
ModelNames == {Absent, Null, Str(<<Lit("gpt")>>)}
Urls == {Absent, Null, Str(<<Lit("http://"), Ref("SET")>>)}
Transports == {Absent, Null, Str(<<Lit("sse")>>), Str(<<Ref("SSE")>>),
               Str(<<Lit("streamable_http")>>), Str(<<Lit("stdio")>>),
               Str(<<Ref("EMPTY")>>)}

\* Strings without a placeholder, with placeholders of set variables, and
\* with placeholders of unset ones after a set one.
Texts == {<<Lit("k")>>, <<Lit("a"), Ref("SET"), Ref("EMPTY")>>,
          <<Ref("SET"), Lit("-"), Ref("GONE"), Ref("UNSET")>>}

\* A string at nesting depths 0 to 3 below its key, in lists and dicts;
\* the deepest sits under a key that is itself the text of a placeholder.
Nested ==
    {Absent}
    \cup {Str(s) : s \in Texts}
    \cup {List(<<Num, Str(s)>>) : s \in Texts}
    \cup {Dict(<<Item("headers", List(<<Str(s)>>))>>) : s \in Texts}
    \cup {List(<<Dict(<<Item("x", Dict(<<Item("${UNSET}", Str(s))>>))>>),
                 Null>>) : s \in Texts}

ModelEntry(provider, model) ==
    Dict(<<Item("provider", provider), Item("model", model),
           Item("stream", Num)>>)

McpEntry(url, transport) ==
    Dict(<<Item("url", url), Item("transport", transport)>>)

\* A document with a sound model entry before the given one, a sound MCP
\* server entry after the given one, and the nested value under tracing.
Document(model, server, nested) ==
    Dict(<<Item("models",
                Dict(<<Item("main", ModelEntry(Str(<<Lit("openai")>>),
                                               Str(<<Lit("gpt")>>))),
                       Item("aux", model)>>)),
           Item("mcp_servers",
                Dict(<<Item("fs", server),
                       Item("web", McpEntry(Str(<<Lit("http://w")>>),
                                            Str(<<Lit("sse")>>)))>>)),
           Item("tracing", Dict(<<Item("endpoint", nested)>>))>>)

\* The documents load_config is called on: the empty document, and
\* documents that vary the model entry with the server's transport, the
\* server entry alone, and the nested value with the provider or with the
\* transport.
Documents ==
    {Null}
    \cup {Document(ModelEntry(p, m), McpEntry(Str(<<Lit("http://h")>>), t),
                   Absent) :
             p \in Providers, m \in ModelNames, t \in Transports}
    \cup {Document(Absent, McpEntry(u, t), Absent) :
             u \in Urls, t \in Transports}
    \cup {Document(ModelEntry(p, Str(<<Lit("gpt")>>)),
                   McpEntry(Str(<<Lit("http://h")>>), Str(<<Ref("SSE")>>)),
                   n) :
             p \in Providers, n \in Nested}
    \cup {Document(Absent, McpEntry(Str(<<Lit("http://h")>>), t), n) :
             t \in Transports, n \in Nested}

\* load_config(config_path) on a file that holds the document
LoadConfig(document) ==
    /\ LET r == RuntimeConfig(document)
       IN  loaded' = [document |-> document,
                      outcome |-> IF r.names = <<>> THEN "ok" ELSE "raise",
                      error |-> IF r.names = <<>> THEN "none" ELSE "ValueError",
                      names |-> r.names,
                      config |-> r.value]
    /\ UNCHANGED offConfig

NextConfig == \E document \in Documents : LoadConfig(document)

SpecConfig == Init /\ [][NextConfig]_allvars

\* ------------------------------------------------------ the served process

\* What _run_async and the lifespan leave alone in a step of their own.
offProcess == <<vars, gateway, chatserver, platform, sessions, database,
                configfile>>

\* The projects `agentscope run` is started on: one that initializes and
\* one whose app.py is missing.
ServedProjects == {3, 5}

\* The process is at this position, and no sys.exit(0) has ended it.
At(at) == served.at = at /\ ~exited

\* _run_async(args) up to await runtime.initialize(...); no_platform is
\* args.no_platform.
RunAsync(p, no_platform) ==
    /\ served = NotServed
    /\ served' = [at |-> "initialize", project |-> p,
                  no_platform |-> no_platform]
    /\ UNCHANGED offProcess

\* await runtime.initialize(...) ends: an exception leaves _run_async and
\* ends the process, else the platform client is the next step.
RunInitialized ==
    /\ At("initialize")
    /\ pc[1] = "idle"
    /\ result[1].op = "initialize"
    /\ served' = [served EXCEPT !.at = IF result[1].outcome = "ok"
                                       THEN "platform" ELSE "raised"]
    /\ UNCHANGED offProcess

\* platform_client = None, or PlatformClient(runtime.config.platform,
\* runtime) unless --no-platform.
RunPlatformClient(endpoint, instance_id) ==
    /\ At("platform")
    /\ ~served.no_platform
    /\ PlatformClientInit(endpoint, instance_id)

\* app = build_app(runtime, platform_client)
RunBuildApp ==
    /\ At("platform")
    /\ served.no_platform \/ Constructed
    /\ BuildApp(IF served.no_platform THEN 0 ELSE 1)

\* await server.serve(): uvicorn enters the lifespan.
RunServe ==
    /\ At("platform")
    /\ built
    /\ served' = [served EXCEPT !.at = "startup"]
    /\ UNCHANGED offProcess

\* The lifespan's startup starts the client if there is one and it is
\* enabled.
StartsClient == platform_client # 0 /\ Enabled

LifespanStart ==
    /\ At("startup")
    /\ StartsClient
    /\ last_call.op # "start"
    /\ Start

\* The lifespan reaches its yield: the server takes requests.
LifespanYield ==
    /\ At("startup")
    /\ StartsClient => last_call.op = "start"
    /\ served' = [served EXCEPT !.at = "serving"]
    /\ UNCHANGED offProcess

LifespanShutdown_runtimeFirst ==
    /\ At("serving")
    /\ served' = [served EXCEPT !.at = "shutdown"]
    /\ UNCHANGED offProcess

\* The server is told to stop: the lifespan goes on after its yield.
LifespanShutdown ==
    /\ At("serving")
    /\ served' = [served EXCEPT !.at = "stop"]
    /\ UNCHANGED offProcess

\* await fastapi_app.state.platform_client.stop(), if there is a client
LifespanStop ==
    /\ At("stop")
    /\ platform_client # 0
    /\ last_call.op # "stop"
    /\ Stop

LifespanStopReturn ==
    /\ At("stop")
    /\ StopReturn

\* stop() has returned or raised (an Exception is logged), or there is no
\* client: runtime.shutdown() is next.
LifespanStopped ==
    /\ At("stop")
    /\ platform_client # 0
       => last_call.op = "stop" /\ last_call.result # "awaiting"
    /\ served' = [served EXCEPT !.at = "shutdown"]
    /\ UNCHANGED offProcess

\* await fastapi_app.state.runtime.shutdown() has returned: the lifespan
\* ends.
LifespanDone ==
    /\ At("shutdown")
    /\ pc[1] = "idle"
    /\ result[1].op = "shutdown"
    /\ served' = [served EXCEPT !.at = "closed"]
    /\ UNCHANGED offProcess

\* `agentscope run`: initialize, the client and the app, then the server's
\* lifespan around the heartbeat loop, stop and shutdown.
NextServe ==
    \/ \E p \in ServedProjects, no_platform \in BOOLEAN :
         RunAsync(p, no_platform)
    \/ /\ At("initialize")
       /\ result[1] = NoResult
       /\ InitializeLoadConfig(1, served.project, MaxObjectsInvoke)
    \/ At("initialize") /\ InitModel(1)
    \/ At("initialize") /\ InitToolkit(1)
    \/ At("initialize") /\ InitConnect(1)
    \/ At("initialize") /\ InitRegister(1)
    \/ At("initialize") /\ InitSession(1)
    \/ At("initialize") /\ InitLoadApp(1)
    \/ At("initialize") /\ InitStartup(1)
    \/ RunInitialized
    \/ \E endpoint \in {"None", "set"}, instance_id \in {"None", "set"} :
         RunPlatformClient(endpoint, instance_id)
    \/ RunBuildApp
    \/ RunServe
    \/ LifespanStart
    \/ LifespanYield
    \/ \E i \in Loops : LoopRound(i)
    \/ \E i \in Loops,
          outcome \in {"200", "500", "ClientError", "TimeoutError"} :
         LoopHeartbeatDone(i, outcome)
    \/ \E i \in Loops, response \in PollResponses : LoopPollDone(i, response)
    \/ \E i \in Loops : LoopCancelled(i)
    \/ LifespanShutdown
    \/ LifespanStop
    \/ LifespanStopReturn
    \/ LifespanStopped
    \/ At("shutdown") /\ result[1].op = "initialize" /\ ShutdownBegin(1)
    \/ At("shutdown") /\ ShutdownHook(1)
    \/ At("shutdown") /\ ShutdownNext(1)
    \/ At("shutdown") /\ ShutdownClose(1)
    \/ At("shutdown") /\ ShutdownClear(1)
    \/ LifespanDone

SpecServe == Init /\ [][NextServe]_allvars

\* ------------------------------------------------ a closed response stream

Abandon_caught(inside, thrown) == IF inside THEN "error_sent" ELSE "closed"

\* Where a generator is left when the transport closes its stream: thrown
\* is the CancelledError raised at the await it is suspended in, or the
\* GeneratorExit raised at its yield; inside says that this is inside the
\* try whose except clause takes every Exception and yields the error.
Abandon(inside, thrown) ==
    IF inside /\ IsException(thrown) THEN "error_sent" ELSE "closed"

\* The transport closes the stream of the /invoke response.  With
\* CancelledError the generator is inside a step that has asked the handler
\* and awaits it; else it is suspended at a yield, or was never started.
StreamClosed(thrown) ==
    /\ stream \in {"start", "loop", "error_sent", "done_sent"}
    /\ CanProbe
    /\ thrown = "CancelledError" => CanAsk
    /\ stream' = Abandon(stream \in {"start", "loop"}, thrown)
    /\ evlog' = IF thrown = "CancelledError"
                THEN evlog \o Asked \o <<"cancel">>
                ELSE Append(evlog, "close")
    /\ UNCHANGED <<built, platform_client, request_count, active_sessions,
                   request, http, ctx, units, frames, raised>>
    /\ UNCHANGED <<vars, chatserver, elsewhere>>

\* The positions of _stream_response at an await, and those at a yield or
\* before the first step.
ChatAwaits == {"loading", "agent", "saving"}

ChatYields == {"start", "agent", "done_sent", "error_sent"}

\* The transport closes the stream of the /chat response of request r.  A
\* save that is cancelled may or may not have written its payload.
ChatClosed(r, thrown) ==
    /\ chat[r].pc \in (IF thrown = "CancelledError" THEN ChatAwaits
                       ELSE ChatYields)
    /\ chat' = [chat EXCEPT
                  ![r].pc = Abandon(chat[r].pc \notin {"start", "error_sent"},
                                    thrown),
                  ![r].log = Append(chat[r].log, "close")]
    /\ \E written \in BOOLEAN :
         IF chat[r].pc = "saving" /\ written
         THEN /\ saved' = saved \cup {chat[r].session_id}
              /\ records' = [records EXCEPT ![chat[r].session_id] = agent]
         ELSE UNCHANGED <<saved, records>>
    /\ UNCHANGED <<session_backend, agent>>
    /\ UNCHANGED <<vars, gateway, elsewhere>>

\* No call has been made on the runtime.
Untouched == pc[1] = "idle" /\ result[1] = NoResult /\ ~built

\* The process is the runtime's gateway: no ChatServer was made in it.
IsGateway == session_backend = "unset"

\* A process that is the runtime's gateway, whose runtime is initialized
\* once, or a ChatServer; it serves one request after the other, and the
\* transport may close each of them.
NextDisconnect ==
    \/ /\ IsGateway
       /\ result[1] = NoResult
       /\ \E p \in InvokeProjects :
            InitializeLoadConfig(1, p, MaxObjectsInvoke)
    \/ IsGateway /\ InitModel(1)
    \/ IsGateway /\ InitToolkit(1)
    \/ IsGateway /\ InitConnect(1)
    \/ IsGateway /\ InitRegister(1)
    \/ IsGateway /\ InitSession(1)
    \/ IsGateway /\ InitLoadApp(1)
    \/ IsGateway /\ InitStartup(1)
    \/ IsGateway /\ Gateway
    \/ \E thrown \in {"CancelledError", "GeneratorExit"} : StreamClosed(thrown)
    \/ Untouched /\ \E backend \in {"None", "backend"} : ChatServerInit(backend)
    \/ \E r \in ChatRequests :
         \/ \E body \in ChatBodies : Chat(r, body)
         \/ ChatStart(r)
         \/ ChatLoaded(r)
         \/ \E kind \in ChunkKinds : ChatChunk(r, kind)
         \/ ChatAgentRaise(r)
         \/ ChatExhausted(r)
         \/ ChatSaved(r)
         \/ ChatEnd(r)
         \/ \E thrown \in {"CancelledError", "GeneratorExit"} :
              ChatClosed(r, thrown)

SpecDisconnect == Init /\ [][NextDisconnect]_allvars

\* ------------------------------------------------------------- properties

\* Task t calls initialize in this step: the call either goes on to its
\* steps or ends at once.
CallsInitialize(t) ==
    /\ pc[t] = "idle"
    /\ \/ pc'[t] \in InitPc
       \/ result'[t].n # result[t].n /\ result'[t].op = "initialize"

\* Task t calls shutdown in this step.
CallsShutdown(t) ==
    /\ pc[t] = "idle"
    /\ \/ pc'[t] \in ShutdownPc
       \/ result'[t].n # result[t].n /\ result'[t].op = "shutdown"

\* C1: initialize on an initialized runtime raises the 'already
\* initialized' RuntimeError and leaves config, app, the model registry,
\* the MCP client list, tools, session and the flag as they were.
C1_SecondInitializeRejected ==
    [][\A t \in Tasks :
          initialized /\ CallsInitialize(t)
          => /\ pc'[t] = "idle"
             /\ result'[t].outcome = "raise"
             /\ result'[t].error = "RuntimeError: already initialized"
             /\ UNCHANGED fields]_vars

\* An initialized runtime has rejected a further initialize.
C1_Witness ==
    \E t \in Tasks :
        /\ initialized
        /\ pc[t] = "idle"
        /\ result[t].op = "initialize"
        /\ result[t].error = "RuntimeError: already initialized"
        /\ config # NoConfig
        /\ config.proj # result[t].proj

\* C2: shutdown on a runtime that is not initialized returns at once: it
\* raises nothing, starts neither on_shutdown nor a close, and leaves every
\* field as it was.
C2_ShutdownUninitializedNoop ==
    [][\A t \in Tasks :
          ~initialized /\ CallsShutdown(t)
          => /\ pc'[t] = "idle"
             /\ result'[t].outcome = "noop"
             /\ result'[t].error = "none"
             /\ UNCHANGED fields
             /\ UNCHANGED sdLog]_vars

\* shutdown has returned on a runtime that a failed initialize left with
\* a configuration, models and a connected client.
C2_Witness ==
    \E t \in Tasks :
        /\ ~initialized
        /\ pc[t] = "idle"
        /\ result[t].op = "shutdown"
        /\ result[t].outcome = "noop"
        /\ config # NoConfig
        /\ Len(models) > 0
        /\ Len(mcp_clients) > 0

\* The state Runtime.__init__ leaves.
Cleared ==
    /\ ~initialized
    /\ config = NoConfig
    /\ app = 0
    /\ mcp_clients = <<>>
    /\ models = RegistryInit
    /\ tools = NoTools
    /\ session = 0

KeySet(reg) == {reg[k].name : k \in 1..Len(reg)}

\* The steps of initialize that fail for a reason outside the project.
ExternalSteps == {"connect", "register_mcp_client", "session", "on_startup"}

\* C3: after initialize and shutdown the runtime holds nothing of the
\* first instantiation, and the next initialize is not rejected, fails on
\* a valid project only where an external call raises, and on success has
\* registered exactly the slots of its configuration, each with a model it
\* created, and holds its configuration and the clients it connected.
C3_ReinitializeAfterShutdown ==
    /\ afterShutdown => Cleared
    /\ \A t \in Tasks :
          pc[t] = "idle" /\ result[t].op = "initialize" /\ result[t].clean
          => IF result[t].outcome = "ok"
             THEN /\ initialized
                  /\ config.proj = result[t].proj
                  /\ KeySet(models) = SlotsOf(result[t].proj)
                  /\ Len(models) = Cardinality(SlotsOf(result[t].proj))
                  /\ \A k \in 1..Len(models) : models[k].model > result[t].base
                  /\ Len(mcp_clients) = Len(Projects[result[t].proj].mcp)
                  /\ tools.regs = mcp_clients
                  /\ app > result[t].base
             ELSE /\ ~initialized
                  /\ result[t].error # "RuntimeError: already initialized"
                  /\ ValidProject(result[t].proj)
                     => result[t].step \in ExternalSteps

\* The first initialize after a shutdown has succeeded on a project whose
\* slots differ from those of the first instantiation.
C3_Witness ==
    \E t \in Tasks :
        /\ pc[t] = "idle"
        /\ result[t].op = "initialize"
        /\ result[t].clean
        /\ result[t].outcome = "ok"
        /\ result[t].proj = 1
        /\ \E k \in 1..Len(sdLog) : sdLog[k].call = "close"

\* An initialize that ends in this step by raising at one of its steps.
FailsNow(t) ==
    /\ result'[t].n # result[t].n
    /\ result'[t].op = "initialize"
    /\ result'[t].outcome = "raise"
    /\ result'[t].step # "check"

\* C4: when initialize raises at any step the flag is false afterwards,
\* and the flag becomes true only in the step in which on_startup returns.
C4_FlagOnlyAfterStartup ==
    [][/\ \A t \in Tasks : FailsNow(t) => ~initialized'
       /\ ~initialized /\ initialized'
          => \E t \in Tasks : /\ pc[t] = "startup"
                              /\ pc'[t] = "idle"
                              /\ result'[t].op = "initialize"
                              /\ result'[t].outcome = "ok"]_vars

\* on_startup has raised and the runtime is not initialized.
C4_Witness ==
    \E t \in Tasks :
        /\ pc[t] = "idle"
        /\ result[t].op = "initialize"
        /\ result[t].outcome = "raise"
        /\ result[t].step = "on_startup"
        /\ app # 0
        /\ ~initialized

\* C5: after initialize has raised at one of its steps, the model
\* registry, the MCP client list, the config and the app hold nothing the
\* failed call created.
C5_NoPartialRegistry ==
    \A t \in Tasks :
        /\ pc[t] = "idle"
        /\ result[t].op = "initialize"
        /\ result[t].outcome = "raise"
        /\ result[t].step # "check"
        => /\ \A k \in 1..Len(models) : models[k].model < result[t].base
           /\ \A k \in 1..Len(mcp_clients) : mcp_clients[k] < result[t].base
           /\ config.id < result[t].base
           /\ app < result[t].base

\* C6: at most one initialize runs its steps at a time: a call that
\* starts while another is suspended at an await is rejected.
C6_AtMostOneInitialize ==
    Cardinality({t \in Tasks : pc[t] \in InitPc}) <= 1

\* The calls of a shutdown, without their outcomes.
Calls(log) == [k \in 1..Len(log) |-> <<log[k].call, log[k].obj>>]

IsPrefix(a, b) == Len(a) <= Len(b) /\ \A k \in 1..Len(a) : a[k] = b[k]

\* on_shutdown, then a close of each connected client, last connected
\* first.
ExpectedCalls(connected) ==
    <<<<"on_shutdown", 0>>>>
    \o [k \in 1..Len(connected) |-> <<"close", Reverse(connected)[k]>>]

\* C7: a shutdown calls on_shutdown first and then closes the connected
\* clients one after the other in the reverse of the order in which
\* initialize connected them; when it returns it has closed all of them.
C7_CloseInReverseOrder ==
    [][\A t \in Tasks :
          pc[t] \in ShutdownPc
          => /\ IsPrefix(Calls(sdLog'), ExpectedCalls(connectLog))
             /\ pc'[t] = "close"
                => frame'[t].cur = ExpectedCalls(connectLog)[Len(sdLog) + 1][2]
             /\ pc'[t] = "idle" => Calls(sdLog') = ExpectedCalls(connectLog)]_vars

\* A shutdown has returned after on_shutdown and the closes of two clients.
C7_Witness ==
    \E t \in Tasks :
        /\ pc[t] = "idle"
        /\ result[t].op = "shutdown"
        /\ result[t].outcome = "ok"
        /\ Len(sdLog) = 3
        /\ sdLog[2].call = "close"
        /\ sdLog[3].call = "close"
        /\ sdLog[2].obj > sdLog[3].obj

Closes(log) == {k \in 1..Len(log) : log[k].call = "close"}

LastRegistered(name) ==
    LET ks == {k \in 1..Len(regLog) : regLog[k][1] = name} IN
    IF ks = {} THEN 0
    ELSE regLog[CHOOSE k \in ks : \A j \in ks : j <= k][2]

RegisteredNames == {regLog[k][1] : k \in 1..Len(regLog)}

ListsRegistered(res) ==
    /\ res.outcome = "raise"
    /\ res.lists
    /\ {res.slots[k] : k \in 1..Len(res.slots)} = RegisteredNames

C10_NotInitializedRaises ==
    (probe.kind \in {"app", "config"} /\ \A t \in Tasks : pc[t] = "idle")
    => IF initialized
       THEN /\ probe.res.outcome = "return"
            /\ probe.res.value # 0
            /\ probe.res.value = IF probe.kind = "app" THEN app ELSE config.id
       ELSE /\ probe.res.outcome = "raise"
            /\ probe.res.error = "RuntimeError: not initialized"

\* ------------------------------------------------ properties of the gateway

\* The request bodies of C11: no JSON, or an object whose session_id is
\* missing, no string or empty, whose message is no object, or whose
\* message cannot be built into a Msg.
InvalidRequest(body) ==
    \/ body.json = "invalid"
    \/ /\ body.json = "object"
       /\ \/ ~IsStr(body.session_id)
          \/ body.session_id.falsy
          \/ ~IsDict(body.message)
          \/ FromDictRaises(body.message)

\* C11: a POST /invoke with invalid JSON, a missing, non-string or empty
\* session_id, a non-object message or a message that cannot be built into
\* a Msg is answered with 400, no stream is opened for it (so the handler
\* is never invoked for it) and the platform client's metrics are left as
\* they were: every step that ends with such a request as the last one
\* made ends with status 400 and no stream, and has changed no metric.
C11_InvalidRequestRejected ==
    [][InvalidRequest(request') =>
           /\ http' = 400
           /\ stream' = "none"
           /\ evlog' = <<>>
           /\ UNCHANGED <<request_count, active_sessions>>]_allvars

\* A request with a non-object message was answered 400 by a gateway whose
\* platform client has recorded one earlier request.
C11_Witness ==
    /\ request.json = "object"
    /\ ~IsDict(request.message)
    /\ http = 400
    /\ platform_client = 1
    /\ request_count = 1

\* C12: the last POST /invoke whose metadata field is present and is no
\* JSON object (a falsy one included: [], 0, false, "") was answered with
\* 400 and no stream was opened for it.
C12_NonObjectMetadataRejected ==
    (/\ request.json = "object"
     /\ request.metadata # PyNone
     /\ ~IsDict(request.metadata))
        => http = 400 /\ stream = "none"

\* The response has ended: event_iter has returned, or an exception has
\* left it.
StreamOver == stream \in {"end", "aborted"}

\* The frames that are terminal markers (metadata.done = true).
Terminal == {i \in 1..Len(frames) : frames[i].done}

\* C13: when the stream of an accepted request has ended, its frames hold
\* exactly one terminal marker, and it is the last frame.
C13_OneTerminalMarkerLast ==
    StreamOver => Terminal = {Len(frames)} /\ Len(frames) >= 1

\* The frames of the units the handler has produced, in order.
UnitFrames == [i \in 1..Len(units) |-> Frame("msg", Line(units[i]), FALSE)]

\* The steps of the log at which the handler was asked for a unit.
Asks == {i \in 1..Len(evlog) : evlog[i] = "ask"}

\* C14: when the handler has raised after k units and the stream has
\* ended, the frames are those of the k units in order, then one error
\* unit carrying the failure message, then the terminal marker, and the
\* handler was not asked again after it raised.
C14_ErrorUnitAfterRaise ==
    StreamOver /\ raised # "" =>
        /\ frames = UnitFrames \o <<ErrorFrame(raised), DoneFrame>>
        /\ \A i \in 1..Len(evlog) : evlog[i] = "raise" => \A j \in Asks : j < i

\* A frame that carries a unit: a Msg dict that is no terminal marker.
IsUnitFrame(f) == f.shape = "msg" /\ ~f.done

\* The number of frames yielded before step i of the log.
FramesBefore(i) == Cardinality({j \in 1..(i - 1) : evlog[j] = "frame"})

\* C15: the frames that carry units are the frames of the units the
\* handler has produced, one for each and in the same order, and whenever
\* the handler is asked for its n-th unit the frames of the n - 1 units
\* before it have been yielded.
C15_FramesFollowUnits ==
    /\ SelectSeq(frames, IsUnitFrame) = UnitFrames
    /\ \A i \in Asks : FramesBefore(i) = Cardinality({j \in Asks : j < i})

\* {"name": "system", "role": "assistant", "content": "<serialization-error>"}
Placeholder == Frame("msg", "<serialization-error>", FALSE)

\* The last thing the request did was to yield the frame of a unit.
JustFramedUnit ==
    /\ Len(evlog) >= 2
    /\ evlog[Len(evlog) - 1] = "unit"
    /\ evlog[Len(evlog)] = "frame"

\* C16: the i-th unit of the handler could not be serialized: the i-th
\* frame is the placeholder, once it is yielded the handler can be asked
\* again, and no error unit is in the stream unless the handler raised.
C16_PlaceholderForUnserializable ==
    \A i \in 1..Len(units) : units[i] # "plain" =>
        /\ Len(frames) >= i
        /\ frames[i] = Placeholder
        /\ i = Len(units) /\ JustFramedUnit => stream = "loop"
        /\ raised = "" => \A j \in 1..Len(frames) : frames[j].shape # "error"

\* C17: the gateway has loaded the session state of the request's session
\* id ("load" in the log) before it calls the handler, and when the
\* handler has completed normally it saves the session state ("save")
\* before it yields the terminal marker.
C17_SessionLoadedAndSaved ==
    \A i \in 1..Len(evlog) :
        /\ evlog[i] = "invoke" => \E j \in 1..(i - 1) : evlog[j] = "load"
        /\ evlog[i] = "return" => i < Len(evlog) /\ evlog[i + 1] = "save"

\* This step of event_iter calls the user's handler.
HandlerInvoked ==
    /\ stream = "start"
    /\ evlog' # <<>>
    /\ evlog'[1] = "invoke"

\* C20: the handler is called for a request only while the runtime is
\* initialized.
C20_HandlerOnlyWhileInitialized == [][HandlerInvoked => initialized]_allvars

\* ---------------------------------------------- properties of the ChatServer

\* The steps of a log before step i at which ev happened.
Before(log, i, ev) == {j \in 1..(i - 1) : log[j] = ev}

\* C18: for a /chat request of a ChatServer with a session backend, the
\* load has completed before the agent is called, the save starts only
\* after the agent's output is exhausted and no chunk follows it, the done
\* event is yielded only after the save has completed, and the load of a
\* session id that was never saved is no error.
C18_ChatSessionOrder ==
    \A r \in ChatRequests : session_backend = "backend" =>
        /\ \A i \in 1..Len(chat[r].log) :
              /\ chat[r].log[i] = "agent" => Before(chat[r].log, i, "load_end") # {}
              /\ chat[r].log[i] = "save_start" =>
                    Before(chat[r].log, i, "exhausted") # {}
              /\ chat[r].log[i] = "chunk" =>
                    Before(chat[r].log, i, "save_start") = {}
              /\ chat[r].log[i] = "done" => Before(chat[r].log, i, "save_end") # {}
        /\ chat[r].error # "ValueError"

\* A request for a session id that was never saved has yielded its done
\* event after two chunks, a load and a save.
C18_Witness ==
    \E r \in ChatRequests :
        /\ session_backend = "backend"
        /\ chat[r].pc = "done_sent"
        /\ chat[r].chunks = 2
        /\ Before(chat[r].log, Len(chat[r].log), "missing") # {}
        /\ chat[r].session_id \in saved

\* C19: when the stream of a /chat response has ended, its last event is
\* the done event.
C19_ChatEndsWithDone ==
    \A r \in ChatRequests : chat[r].pc = "end" =>
        /\ chat[r].events # <<>>
        /\ chat[r].events[Len(chat[r].events)] = "done"

\* ------------------------------------------- properties: platform client

\* C21: the client is enabled exactly when both an endpoint and an instance
\* id are configured, and a call on a client that is not enabled does
\* nothing: no task is created, no request is issued (a config poll
\* returns "none"), and the request counter and the session set keep
\* their values.
C21_DisabledClientIsNoOp ==
    [][/\ Constructed' =>
            (Enabled' <=> /\ platform_config'.endpoint = "set"
                          /\ platform_config'.instance_id = "set")
       /\ Constructed /\ ~Enabled =>
            /\ UNCHANGED <<heartbeat_task, loop, sent>>
            /\ UNCHANGED <<request_count, active_sessions>>
            /\ last_call'.op = "_check_config_update" =>
                   last_call'.result = "none"]_allvars

\* The ids passed to record_request so far.
Passed(ids) == {ids[k] : k \in 1..Len(ids)}

\* C22: however record_request calls and heartbeat loops interleave, the
\* request counter equals the number of record_request calls made and never
\* decreases, the session set equals the set of ids passed and never
\* shrinks, and every heartbeat payload carries the counter and the size of
\* the set as they are when the payload is built.
C22_MetricsConsistent ==
    [][/\ request_count' = Len(recorded')
       /\ request_count' >= request_count
       /\ active_sessions' = Passed(recorded')
       /\ active_sessions \subseteq active_sessions'
       /\ sent'.heartbeat # sent.heartbeat =>
            /\ payload'.total_requests = Len(recorded)
            /\ payload'.active_sessions = Cardinality(Passed(recorded))]_allvars

\* Two requests with different ids, one recorded before the payload of a
\* heartbeat was built and one after.
C22_Witness ==
    /\ sent.heartbeat > 0
    /\ payload = [total_requests |-> 1, active_sessions |-> 1]
    /\ request_count = 2
    /\ Cardinality(active_sessions) = 2

FailedHeartbeats == {"500", "ClientError", "TimeoutError"}

FailedPoll(r) == r.status # "200" \/ r.body = "invalid"

\* Task i makes the step that ends its await at position at.
Leaves(i, at) ==
    /\ loop[i].pc = at
    /\ ~loop[i].must_cancel
    /\ loop'[i].pc # at

\* C23: a heartbeat that fails (network error, timeout, status other than
\* 200) is followed by the config poll of the same iteration, a config
\* poll that fails is followed by the sleep, neither ends the loop task or
\* the process, and after the sleep the next iteration begins.
C23_FailuresStayInLoop ==
    [][\A i \in Loops :
         /\ Leaves(i, "heartbeat") /\ loop'[i].heartbeat \in FailedHeartbeats
              => /\ loop'[i].pc = "poll"
                 /\ sent'.poll = sent.poll + 1
                 /\ ~exited'
         /\ Leaves(i, "poll") /\ FailedPoll(loop'[i].poll)
              => /\ loop'[i].pc = "sleep"
                 /\ ~exited'
         /\ Leaves(i, "sleep")
              => /\ loop'[i].pc = "heartbeat"
                 /\ sent'.heartbeat = sent.heartbeat + 1]_allvars

\* A loop whose heartbeat failed and whose config poll then failed is in
\* its second iteration, the heartbeat of which failed too.
C23_Witness ==
    \E i \in Loops :
        /\ loop[i].rounds = 2
        /\ loop[i].pc = "poll"
        /\ loop[i].heartbeat \in FailedHeartbeats

\* The response asks for a restart: 200, updated true, action "restart".
Restarts(r) ==
    /\ r.status = "200"
    /\ r.body = "object"
    /\ r.updated = "true"
    /\ r.action = "restart"

\* C24: the heartbeat loop ends the process exactly when a config poll
\* comes back with status 200, updated true and action "restart"; after
\* any other response, and after a failed poll, the process lives and the
\* loop goes on to its sleep.
C24_ExitOnlyOnRestart ==
    [][/\ exited' /\ ~exited =>
            \E i \in Loops : Leaves(i, "poll") /\ Restarts(loop'[i].poll)
       /\ \A i \in Loops : Leaves(i, "poll") =>
            IF Restarts(loop'[i].poll)
            THEN exited' /\ loop'[i].pc = "exited"
            ELSE ~exited' /\ loop'[i].pc = "sleep"]_allvars

\* The second poll of a loop asked for a restart and the process is ending.
C24_Witness ==
    /\ exited
    /\ \E i \in Loops : loop[i].pc = "exited" /\ loop[i].rounds = 2

\* C25: a stop() that finds a task ends it wherever it is suspended and
\* returns without raising, and once stop() has returned no heartbeat and
\* no config poll is issued until start() is called again.
C25_StopEndsLoop ==
    [][/\ \A i \in Loops : loop[i].must_cancel /\ ~loop'[i].must_cancel =>
            loop'[i].pc \in {"done", "cancelled"}
       /\ stopping # 0 /\ stopping' = 0 =>
            Finished(stopping) /\ last_call' = Call("stop", "returned")
       /\ sent' # sent => ~stopped]_allvars

\* --------------------------------------------- properties: session backends

\* The step is a call op(id, ...) on the backend.
Called(op, id) ==
    /\ backend_call' # backend_call
    /\ backend_call'.op = op
    /\ backend_call'.session_id = id

\* The record the backend holds for the session id.
RecordOf(id) == store[GetKey(backend_kind, id)]

\* C26: on each backend a save of serializable states succeeds, and a load
\* of the same id with allow_not_exist false right after it succeeds and
\* leaves each component that was saved and is loaded in the state that
\* was saved.
C26_RoundTrip ==
    [][\A id \in StoreIds :
         /\ Called("save", id) => backend_call'.outcome = "ok"
         /\ /\ backend_call.op = "save"
            /\ backend_call.session_id = id
            /\ Called("load", id)
            /\ ~backend_call'.allow_not_exist
            => /\ backend_call'.outcome = "ok"
               /\ \A n \in backend_call'.names \cap backend_call.names :
                     components'[n] = backend_call.states[n]]_allvars

\* C27: a load of an id the backend holds no record for, one saved and
\* deleted included, changes no component; it returns when allow_not_exist
\* is true and raises ValueError (not found) when it is false.
C27_MissingRecord ==
    [][\A id \in StoreIds :
         Called("load", id) /\ ~RecordOf(id).present
         => /\ components' = components
            /\ backend_call'.outcome =
                  IF backend_call'.allow_not_exist THEN "ok"
                  ELSE "ValueError"]_allvars

\* A load with allow_not_exist false of an id that was saved and deleted
\* has raised, with a component in a state other than its first.
C27_Witness ==
    /\ backend_call.op = "load"
    /\ backend_call.outcome = "ValueError"
    /\ RecordOf(backend_call.session_id).deleted
    /\ components["memory"] = "t"

\* C28: after a save the record of the id holds exactly the names and the
\* states of that save, whatever earlier saves wrote, and the record of
\* every other id is what it was.
C28_SaveOverwrites ==
    [][\A id \in StoreIds :
         Called("save", id) /\ backend_call'.outcome = "ok"
         => /\ RecordOf(id)' = Stored(Payload(backend_call'.states))
            /\ DOMAIN RecordOf(id)'.data = backend_call'.names
            /\ \A other \in StoreIds \ {id} :
                  RecordOf(other)' = RecordOf(other)]_allvars

\* C29: a load that finds a record sets each component that is both
\* requested and in the record to the state the record holds for it,
\* leaves every other component as it is, and leaves the store as it is.
C29_LoadRestoresCommonNames ==
    [][\A id \in StoreIds :
         Called("load", id) /\ RecordOf(id).present
         => /\ \A n \in ComponentNames :
                  components'[n] =
                    IF n \in backend_call'.names
                       /\ n \in DOMAIN RecordOf(id).data
                    THEN Loads[RecordOf(id).data[n]]
                    ELSE components[n]
            /\ store' = store
            /\ backend_call'.outcome = "ok"]_allvars

\* A load of two components from a record that holds one of them: the one
\* is restored, the other keeps a state no load gives.
C29_Witness ==
    /\ backend_call.op = "load"
    /\ backend_call.names = {"memory", "agent"}
    /\ RecordOf(backend_call.session_id).present
    /\ DOMAIN RecordOf(backend_call.session_id).data = {"memory"}
    /\ components["memory"] = "l"
    /\ components["agent"] = "t"

\* No save call is under way.
Quiet == \A t \in Savers : tx[t].pc \in {"idle", "done", "failed"}

\* C30: however concurrent saves of one session id interleave, with the
\* native upsert and with delete-then-insert in one transaction, no save
\* fails with a duplicate-key error, and once the saves have ended the
\* table holds exactly one row for the id, with the payload of one of
\* them.
C30_ConcurrentSaves ==
    /\ \A t \in Savers : tx[t].error # "IntegrityError"
    /\ Quiet /\ (\E t \in Savers : tx[t].pc = "done") =>
         /\ Cardinality(RowsOf(SavedId)) = 1
         /\ \A r \in RowsOf(SavedId) : r.state_data \in Payloads

\* C36: the last POST /invoke whose body was valid JSON but no object (an
\* array, a string, a number) was answered with a 4xx status and no stream
\* was opened for it.
C36_NonObjectBodyRejected ==
    request.json = "array" => http \in 400..499 /\ stream = "none"

\* ------------------------------------- properties: one heartbeat loop task

\* The heartbeat loop tasks that have been created and have not ended.
LiveLoops == {i \in Loops : loop[i].pc \in {"created", "heartbeat", "poll", "sleep"}}

\* C39: while the process runs, at most one heartbeat loop task of the
\* client is alive, and none is alive once stop() has returned and
\* start() has not been called again.
C39_AtMostOneLoop ==
    ~exited => /\ Cardinality(LiveLoops) <= 1
               /\ stopped => LiveLoops = {}

\* ------------------------------------------ properties: the initialized flag

\* Every model slot of the loaded configuration is in the model registry.
SlotsRegistered ==
    config # NoConfig /\ SlotsOf(config.proj) \subseteq KeySet(models)

\* C40: whenever the flag is true, app and config are set, tools and
\* session are set and every model slot of the loaded configuration is in
\* the model registry; and from shutdown's clearing until the next
\* initialize starts, app, config, tools and session are None and the
\* registry is empty.
C40_InitializedImpliesSet ==
    /\ initialized => /\ app # 0
                      /\ tools # NoTools
                      /\ session # 0
                      /\ SlotsRegistered
    /\ afterShutdown => /\ app = 0
                        /\ config = NoConfig
                        /\ tools = NoTools
                        /\ session = 0
                        /\ Len(models) = 0

\* ---------------------------------------- properties: the order of initialize

\* The last n registrations in the model registry are those of the first
\* n model slots of the configuration task t has loaded, in declared order.
ModelsRegistered(t, n) ==
    /\ Len(regLog) >= n
    /\ \A k \in 1..n :
          regLog[Len(regLog) - n + k][1] = Projects[frame[t].proj].models[k].slot

\* The toolkit of this call holds n clients, and they are the last n
\* clients connected but for the pending ones, in the order connected.
ClientsRegistered(t, n, pending) ==
    /\ tools # NoTools
    /\ Len(tools.regs) = n
    /\ Len(mcp_clients) >= n + pending
    /\ \A k \in 1..n :
          tools.regs[k] = mcp_clients[Len(mcp_clients) - pending - n + k]

\* How far the steps before a position have come: "some" while the loop of
\* the step is running, "all" once the step is over, "none" before it.
StepsDone(at) ==
    [models   |-> IF at = "models" THEN "some" ELSE "all",
     clients  |-> IF at = "models" THEN "none"
                  ELSE IF at \in {"connect", "register"} THEN "some" ELSE "all",
     session  |-> at \in {"load_app", "startup"},
     app      |-> at = "startup"]

\* C33: wherever an initialize call stands, the steps before its position
\* have been done in the fixed order and the later ones have not begun:
\* the configuration is the one this call loaded; the model slots are
\* registered in declared order before the toolkit is made; the k-th MCP
\* client is connected only when the k-1 clients before it are connected
\* and registered, in declared order; the session store is made after the
\* last client is registered, the handler is loaded after the session
\* store, and on_startup runs last, with every configured slot registered
\* and tools and session set.
C33_InitializeOrder ==
    \A t \in Tasks :
        pc[t] \in InitPc =>
            LET done == StepsDone(pc[t])
                p == frame[t].proj
            IN  /\ config = [id |-> frame[t].base, proj |-> p]
                /\ ModelsRegistered(t, IF done.models = "all"
                                       THEN Len(Projects[p].models)
                                       ELSE frame[t].it - 1)
                /\ done.models = "some" =>
                       tools = NoTools \/ tools.id < frame[t].base
                /\ done.clients = "some" =>
                       /\ frame[t].it <= Len(Projects[p].mcp)
                       /\ ClientsRegistered(t, frame[t].it - 1,
                              IF pc[t] = "register" THEN 1 ELSE 0)
                       /\ tools.id > frame[t].base
                       /\ session = 0 \/ session < frame[t].base
                /\ done.clients = "all" =>
                       ClientsRegistered(t, Len(Projects[p].mcp), 0)
                /\ done.session <=> session = config.id
                /\ done.app <=> app > frame[t].base
                /\ pc[t] = "startup" =>
                       /\ SlotsOf(p) \subseteq KeySet(models)
                       /\ tools # NoTools
                       /\ session # 0
                       /\ ~initialized

\* on_startup is running for a configuration with two model slots and an
\* MCP server, on a runtime an earlier failed initialize left a client in.
C33_Witness ==
    \E t \in Tasks :
        /\ pc[t] = "startup"
        /\ Len(Projects[frame[t].proj].models) = 2
        /\ Len(Projects[frame[t].proj].mcp) = 1
        /\ Len(mcp_clients) = 2

\* -------------------------------------- properties: the MCP clients' closes

\* C37: when the last call made on the runtime is a shutdown that has
\* returned, no connected client is left unclosed in the client list, and
\* the shutdown that closed the clients closed none of them twice.
C37_ClientsClosedOnce ==
    \A t \in SeqTasks :
        pc[t] = "idle" /\ result[t].op = "shutdown"
        => /\ mcp_clients = <<>>
           /\ \A j, k \in Closes(sdLog) : sdLog[j].obj = sdLog[k].obj => j = k

\* ------------------------------------------ properties: lazy connection

\* The step is a save, load, exists or delete call on the backend.
Uses ==
    /\ backend_call' # backend_call
    /\ backend_call'.op \in {"save", "load", "exists", "delete"}

\* C31: constructing a Redis or database backend makes no client or
\* engine, whether or not the server is reachable; the client or engine is
\* made only by a save, load, exists or delete call, and by the first of
\* them; and such a call made while the server is unreachable raises the
\* connection error to its caller and changes neither the store nor a
\* component, while one made with the server reachable raises no
\* connection error.
C31_LazyConnect ==
    [][/\ backend_kind # backend_kind' => engine' = "None"
       /\ engine' # engine => Uses
       /\ Uses /\ backend_kind # "file" =>
            /\ engine' = "created"
            /\ backend_call'.outcome = "ConnectionError" <=> ~reachable
            /\ ~reachable => store' = store /\ components' = components]_allvars

\* The first call on a database backend, a delete of a saved session made
\* while the server is down, has raised the connection error; the engine
\* was made and the record is still there.
C31_Witness ==
    /\ backend_kind = "database"
    /\ ~reachable
    /\ backend_call.op = "delete"
    /\ backend_call.outcome = "ConnectionError"
    /\ engine = "created"
    /\ store[backend_call.session_id].present

\* ------------------------------------------------- properties: load_config

RECURSIVE StringValues(_)

\* The strings that are values of the document, at any depth.
StringValues(value) ==
    IF value.type = "str" THEN {value.tokens}
    ELSE IF value.type = "list"
    THEN UNION {StringValues(value.items[k]) : k \in 1..Len(value.items)}
    ELSE IF value.type = "dict"
    THEN UNION {StringValues(value.items[k].value) : k \in 1..Len(value.items)}
    ELSE {}

\* The variables of the placeholders of the document that are not set.
UnsetVars(document) ==
    {v \in DOMAIN Environ :
        /\ Environ[v] = <<>>
        /\ \E s \in StringValues(document) : \E k \in 1..Len(s) : s[k].var = v}

\* The entries of a top-level section of the document.
Entries(document, section) ==
    UNION {{document.items[k].value.items[j] :
                j \in 1..Len(document.items[k].value.items)} :
           k \in {i \in 1..Len(document.items) :
                      document.items[i].key = section}}

\* The entry has no value under the field.
Lacks(entry, field) ==
    \A k \in 1..Len(entry.items) :
        entry.items[k].key = field => entry.items[k].value = Null

\* The text a string stands for once its placeholders are resolved.
Text(tokens) ==
    [k \in 1..Len(tokens) |->
        IF tokens[k].var = "" THEN tokens[k].lit
        ELSE IF Environ[tokens[k].var] = <<>> THEN "?"
        ELSE Environ[tokens[k].var][1]]

\* The entry names a transport other than sse and streamable_http.
BadTransport(entry) ==
    \E k \in 1..Len(entry.items) :
        /\ entry.items[k].key = "transport"
        /\ entry.items[k].value # Null
        /\ ~(/\ entry.items[k].value.type = "str"
             /\ Text(entry.items[k].value.tokens)
                   \in {<<"sse">>, <<"streamable_http">>})

\* The fields of the list that entries of the section lack, each with the
\* name of its entry.
Missing(document, section, kind, required) ==
    {x \in {<<kind, e.key, f>> :
               e \in Entries(document, section), f \in required} :
        \E d \in Entries(document, section) :
            d.key = x[2] /\ Lacks(d.value, x[3])}

\* What is wrong with the document: unset variables, and fields missing
\* or invalid in a model entry or an MCP server entry.
Defects(document) ==
    {<<"variable", v, "">> : v \in UnsetVars(document)}
    \cup Missing(document, "models", "model", {"provider", "model"})
    \cup Missing(document, "mcp_servers", "mcp", {"url", "transport"})
    \cup {<<"mcp", e.key, "invalid transport">> :
             e \in {d \in Entries(document, "mcp_servers") :
                       BadTransport(d.value)}}

C34_HeartbeatOnlyInitialized ==
    [][/\ sent'.heartbeat # sent.heartbeat => initialized /\ initialized'
       /\ (LiveLoops # {} => initialized)'
       /\ LiveLoops = {} /\ LiveLoops' # {}
          => /\ result[1].op = "initialize"
             /\ result[1].outcome = "ok"
             /\ pc[1] = "idle"
       /\ CallsShutdown(1)
          => /\ LiveLoops = {}
             /\ platform_client # 0
                => /\ last_call.op = "stop"
                   /\ last_call.result \in {"noop", "returned"}
                   /\ stopping = 0]_allvars

\* The process has served with a client that sent heartbeats, stop() has
\* cancelled the loop, and Runtime.shutdown has run after it.
C34_Witness ==
    /\ served.at = "closed"
    /\ sent.heartbeat > 0
    /\ last_call = Call("stop", "returned")
    /\ result[1].op = "shutdown"
    /\ ~initialized

\* ------------------------------------------ properties: a closed stream

\* The last thing a request did was to have its stream closed.
EndsClosed(log) ==
    log # <<>> /\ log[Len(log)] \in {"close", "cancel"}

\* C35: once the transport has closed the stream of a response, the
\* handler is not asked again and no frame is produced: the request does
\* nothing more.  For a /chat request closed before the agent's output was
\* exhausted, the session is not saved.
C35_ClosedStreamAbandoned ==
    [][/\ EndsClosed(evlog') /\ ~EndsClosed(evlog)
          => UNCHANGED <<units, frames>> /\ stream' = "closed"
       /\ EndsClosed(evlog)
          => \/ UNCHANGED <<stream, units, frames, evlog>>
             \/ evlog' = <<>> /\ frames' = <<>>
       /\ \A r \in ChatRequests :
            /\ EndsClosed(chat'[r].log) /\ ~EndsClosed(chat[r].log)
               => /\ chat'[r].events = chat[r].events
                  /\ chat'[r].pc = "closed"
                  /\ Before(chat[r].log, Len(chat[r].log) + 1, "exhausted") = {}
                     => saved' = saved
            /\ EndsClosed(chat[r].log)
               => \/ chat'[r] = chat[r] /\ saved' = saved
                  \/ chat'[r].log = <<>> /\ saved' = saved]_allvars

\* The stream of a /chat response of a ChatServer with a backend was
\* closed after an event, before the agent's output was exhausted.
C35_Witness ==
    \E r \in ChatRequests :
        /\ session_backend = "backend"
        /\ chat[r].pc = "closed"
        /\ chat[r].events # <<>>
        /\ Before(chat[r].log, Len(chat[r].log), "exhausted") = {}
        /\ chat[r].session_id \notin saved

\* ------------------------------------- properties: sessions of the ChatServer

\* C38: the agent state the ChatServer persists under a session id holds
\* the turns of that session only: a request for a session never saved
\* does not persist another session's state under its id.
C38_SessionIsolation ==
    \A s \in ChatSessionIds : records[s] \subseteq {s}

====
